---- MODULE Spec2Model ----
(***************************************************************************)
(* A model of the Encrypted ClientHello engine of ssl/ech.c: the server    *)
(* key store, the inner ClientHello encoder and decoder, the client        *)
(* assembler (ech_aad_and_encrypt), the server decoder                     *)
(* (ech_early_decrypt), the accept confirmation, the config codec          *)
(* (ECHConfigs_from_binary, local_ech_add, ech_guess_fmt, local_svcb_add), *)
(* the client API (outer name, GREASE, outer ALPN), the ownership of the   *)
(* buffers of the key store, SSL_ech_get_status, SSL_CTX_ech_raw_decrypt   *)
(* and ech_swaperoo.                                                       *)
(* Buffers are sequences of octets; offsets are the 0-based offsets of the *)
(* C code.                                                                 *)
(***************************************************************************)
EXTENDS Integers, Sequences, FiniteSets, TLC

(***************************************************************************)
(* Octet buffers                                                           *)
(***************************************************************************)

\* buf[off], 0-based as in C; a read past the end of the buffer yields 0
At(buf, off) == IF off >= 0 /\ off < Len(buf) THEN buf[off + 1] ELSE 0

\* the len octets of buf that start at offset off (memcpy source window)
Slice(buf, off, len) ==
  IF len <= 0 THEN << >>
  ELSE SubSeq(buf, off + 1, IF off + len <= Len(buf) THEN off + len ELSE Len(buf))

\* a buffer of n octets that all equal b
Fill(n, b) == [i \in 1..n |-> b]

\* network byte order, as WPACKET_put_bytes_u16 and the (x/256, x%256) idiom
U16(n) == << (n \div 256) % 256, n % 256 >>

\* 3-octet length, as the ((x>>16)&0xff, (x>>8)&0xff, x&0xff) idiom
U24(n) == << (n \div 65536) % 256, (n \div 256) % 256, n % 256 >>

\* buf[off]*256+buf[off+1]
Rd16(buf, off) == At(buf, off) * 256 + At(buf, off + 1)

\* Op applied to the value of v: what a C local holds is computed once,
\* where it is assigned, however often it is read afterwards
With(v, Op(_)) == Op(v)

\* one extension on the wire: type, u16 length, value
ExtBytes(type, val) == U16(type) \o U16(Len(val)) \o val

RECURSIVE ExtsBytes(_)
\* a list of extensions [type, data] on the wire, in list order
ExtsBytes(exts) ==
  IF exts = << >> THEN << >>
  ELSE ExtBytes(Head(exts).type, Head(exts).data) \o ExtsBytes(Tail(exts))

(***************************************************************************)
(* Bounds of the model                                                     *)
(***************************************************************************)

\* the clock runs from 0 to MaxTime
MaxTime == 2
\* at most MaxKeys keys are loaded into the store
MaxKeys == 3
\* the largest age passed to SSL_CTX_ech_server_flush_keys
MaxAge == 2

(***************************************************************************)
(* Program constants                                                       *)
(***************************************************************************)

ECH_KEYPAIR_ERROR == 0
ECH_KEYPAIR_NEW == 1
ECH_KEYPAIR_UNMODIFIED == 2
ECH_KEYPAIR_MODIFIED == 3
ECH_KEYPAIR_FILEMISSING == 4

\* ech_grease values (ech_local.h)
ECH_GREASE_UNKNOWN == -1
ECH_NOT_GREASE == 0
ECH_IS_GREASE == 1

VARIABLES
  ctx,        \* SSL_CTX: ext.ech (array of SSL_ECH), ext.nechs
  now,        \* time(0)
  mtime,      \* modification time of each PEM file
  lastop,     \* the key-store call made last, its arguments and result
  conn,       \* the server connection (SSL) made last by SSL_new
  cl,         \* the client connection: its inputs and what it has built
  wire,       \* the ClientHello body the server receives
  srv,        \* the outcome of ech_early_decrypt on the server connection
  hpke_sealed, \* the messages sealed with HPKE so far
  status,     \* the result of SSL_ech_get_status on the server connection
  ac,         \* the accept confirmation: inputs and both calculations
  alloc,      \* the allocator: the blocks that are live, and the invalid uses
  pc          \* the step the handshake has reached

storevars == << ctx, now, mtime, lastop >>
hsvars == << cl, wire, srv, hpke_sealed, status >>
vars == << ctx, now, mtime, lastop, conn, cl, wire, srv, hpke_sealed, status,
           ac, alloc, pc >>

(***************************************************************************)
(* HPKE keys and published configurations                                  *)
(***************************************************************************)

\* HPKE identifiers (RFC 9180): DHKEM(X25519), DHKEM(P-256), HKDF-SHA256,
\* AES-128-GCM, and one KDF and one AEAD value that hpke_suite_check rejects
HPKE_KEM_ID_25519 == 32
HPKE_KEM_ID_P256 == 16
HPKE_KDF_ID_HKDF_SHA256 == 1
HPKE_KDF_ID_HKDF_SHA384 == 2
HPKE_AEAD_ID_AES_GCM_128 == 1
UnknownAead == 9

\* octets of a KEM public value: Npk of RFC 9180
KemNpk(kem) == IF kem = HPKE_KEM_ID_P256 THEN 65 ELSE 32

\* the private keys that exist, as handles
KeyIds == 1..3

\* the config_id published for each key: keys 1 and 3 collide
ConfigIdOf(k) == IF k = 2 THEN 2 ELSE 1

\* the public value of key k
PubOf(k) == Fill(KemNpk(HPKE_KEM_ID_25519), 160 + k)

\* public names
NameA == << 97, 46, 99 >>
NameB == << 98, 46, 99 >>

ECH_DRAFT_10_VERSION == 65034

\* the wire encoding of one draft-10 ECHConfig (section 6 of the spec)
EncodeConfig(config_id, kem_id, pub, suites, maxname, public_name) ==
  LET body == << config_id >> \o U16(kem_id) \o U16(Len(pub)) \o pub
              \o U16(Len(suites)) \o suites \o U16(maxname)
              \o U16(Len(public_name)) \o public_name \o U16(0)
  IN U16(ECH_DRAFT_10_VERSION) \o U16(Len(body)) \o body

\* an ECHConfig as ECHConfigs_from_binary leaves it when the config is alone
\* in its list: the fields the engine reads, and the window
\* encoding_start[encoding_length]
MkConfig(config_id, kem_id, pub, suites, public_name) ==
  [ config_id |-> config_id, kem_id |-> kem_id, pub |-> pub,
    ciphersuites |-> suites, public_name |-> public_name,
    encoding |-> EncodeConfig(config_id, kem_id, pub,
                   [i \in 1..(4 * Len(suites)) |->
                      LET e == suites[((i - 1) \div 4) + 1]
                          j == (i - 1) % 4
                      IN IF j < 2 THEN U16(e.kdf)[j + 1] ELSE U16(e.aead)[j - 1]],
                   64, public_name) ]

SuiteOk == [kdf |-> HPKE_KDF_ID_HKDF_SHA256, aead |-> HPKE_AEAD_ID_AES_GCM_128]
SuiteOk2 == [kdf |-> HPKE_KDF_ID_HKDF_SHA384, aead |-> HPKE_AEAD_ID_AES_GCM_128]
SuiteBad == [kdf |-> HPKE_KDF_ID_HKDF_SHA256, aead |-> UnknownAead]

\* the ECHConfig of the key pair k, as stored in its PEM file
ServerConfig(k) ==
  MkConfig(ConfigIdOf(k), HPKE_KEM_ID_25519, PubOf(k), << SuiteOk >>,
           IF k = 2 THEN NameB ELSE NameA)

(***************************************************************************)
(* Key store                                                               *)
(***************************************************************************)

PemFiles == { "k1.pem", "k2.pem", "k3.pem" }

\* the key pair held by each PEM file
KeyOfFile(f) == IF f = "k1.pem" THEN 1 ELSE IF f = "k2.pem" THEN 2 ELSE 3

\* an SSL_ECH after memset(tbf,0,sizeof(SSL_ECH))
ZeroECH == [ cfg |-> << >>, pemfname |-> "", loadtime |-> 0, keyshare |-> 0 ]

\* the first nechs slots of the array: the keys the store holds
Keys(c) == SubSeq(c.ech, 1, c.nechs)

\* a PEM file whose ECHConfigList holds two ECHConfigs
TwoConfigFile == "two.pem"

\* the ECHConfigs local_ech_add decodes from the PEM file
ConfigsOfFile(pemfile) ==
  IF pemfile = TwoConfigFile
  THEN << ServerConfig(1), ServerConfig(2) >>
  ELSE << ServerConfig(KeyOfFile(pemfile)) >>

\* ech_readpemfile: one private key and the ECHConfigs of the file, stamped
\* with time(0)
ech_readpemfile(pemfile, t) ==
  [ cfg |-> ConfigsOfFile(pemfile), pemfname |-> pemfile,
    loadtime |-> t, keyshare |-> KeyOfFile(pemfile) ]

\* the switch on inputIsFile at the head of ech_readpemfile: 1 when the
\* function goes on to read its input, 0 when it returns 0 there.  Case 0
\* has no break and runs into the default.
ReadPemInputSwitch(inputIsFile, inlen) ==
  IF inputIsFile = 1 THEN 1
  ELSE IF inputIsFile = 0
       THEN (IF inlen = 0 THEN 0 ELSE 0)
       ELSE 0

\* a file-name check that finds every file new
CheckFilenamesAlwaysNew(c, pemfname, mt) ==
  [ stat |-> ECH_KEYPAIR_NEW, index |-> -1 ]

\* ech_check_filenames: is pemfname new, unmodified or modified
ech_check_filenames(c, pemfname, mt) ==
  IF c.isnull \/ c.nechs = 0 THEN [ stat |-> ECH_KEYPAIR_NEW, index |-> -1 ]
  ELSE LET hits == { i \in 1..c.nechs : c.ech[i].pemfname = pemfname }
       IN IF hits = {} THEN [ stat |-> ECH_KEYPAIR_NEW, index |-> -1 ]
          ELSE LET ind == CHOOSE i \in hits : \A j \in hits : i <= j
               IN IF c.ech[ind].loadtime < mt[pemfname]
                  THEN [ stat |-> ECH_KEYPAIR_MODIFIED, index |-> ind - 1 ]
                  ELSE [ stat |-> ECH_KEYPAIR_UNMODIFIED, index |-> -1 ]

\* SSL_CTX_ech_server_key_status: *numkeys
SSL_CTX_ech_server_key_status(c) == IF ~c.isnull THEN c.nechs ELSE 0

\* does the flush loop delete a key loaded at loadtime
FlushTest(loadtime, age, t) == (loadtime + age) <= t

\* a flush loop that frees the old keys where they are and moves none
FlushLoopNoShift(ech, nechs, i, deleted, age, t) ==
  [ ech |-> [ j \in 1..Len(ech) |->
                IF j > i /\ j <= nechs /\ FlushTest(ech[j].loadtime, age, t)
                THEN ZeroECH ELSE ech[j] ],
    deleted |-> deleted + Cardinality({ j \in (i + 1)..nechs :
                                         FlushTest(ech[j].loadtime, age, t) }) ]

RECURSIVE FlushLoop(_, _, _, _, _, _)
\* the loop of SSL_CTX_ech_server_flush_keys over ech[i..nechs-1]
FlushLoop(ech, nechs, i, deleted, age, t) ==
  IF i = nechs THEN [ ech |-> ech, deleted |-> deleted ]
  ELSE IF FlushTest(ech[i + 1].loadtime, age, t)
       THEN FlushLoop([ech EXCEPT ![i + 1] = ZeroECH], nechs, i + 1,
                      deleted + 1, age, t)
       ELSE FlushLoop([ech EXCEPT ![i + 1 - deleted] = ech[i + 1]], nechs,
                      i + 1, deleted, age, t)

\* a flush that frees the first key and keeps the others
FlushFirstOnly(c) ==
  [ ech |-> Tail(Keys(c)), isnull |-> FALSE, nechs |-> c.nechs - 1 ]

\* the store after the age<=0 branch of SSL_CTX_ech_server_flush_keys
FlushAll(c) == [ ech |-> << >>, isnull |-> TRUE, nechs |-> 0 ]

\* SSL_CTX_ech_server_flush_keys(s, age) at time t: the store afterwards
SSL_CTX_ech_server_flush_keys(c, age, t) ==
  IF c.isnull THEN c
  ELSE IF c.nechs = 0 THEN c
  ELSE IF age <= 0 THEN FlushAll(c)
  ELSE LET r == FlushLoop(c.ech, c.nechs, 0, 0, age, t)
       IN [ c EXCEPT !.ech = r.ech, !.nechs = c.nechs - r.deleted ]

\* the return value of SSL_CTX_ech_server_enable(ctx, pemfile)
ServerEnableRv(c, pemfile, mt, t) ==
  IF ech_check_filenames(c, pemfile, mt).stat = ECH_KEYPAIR_UNMODIFIED THEN 1
  ELSE IF ReadPemInputSwitch(1, 0) # 1 THEN 0
  ELSE IF Len(ech_readpemfile(pemfile, t).cfg) # 1 THEN 0
  ELSE 1

\* SSL_CTX_ech_server_enable(ctx, pemfile): the store afterwards
SSL_CTX_ech_server_enable(c, pemfile, mt, t) ==
  LET fs == ech_check_filenames(c, pemfile, mt)
      sechs == ech_readpemfile(pemfile, t)
  IN IF fs.stat = ECH_KEYPAIR_UNMODIFIED THEN c
     ELSE IF ReadPemInputSwitch(1, 0) # 1 THEN c
     ELSE IF Len(sechs.cfg) # 1 THEN c
     ELSE IF fs.stat = ECH_KEYPAIR_MODIFIED
          THEN [ c EXCEPT !.ech[fs.index + 1] = sechs ]
          ELSE [ ech |-> Append(SubSeq(c.ech, 1, c.nechs), sechs),
                 isnull |-> FALSE, nechs |-> c.nechs + 1 ]

\* PEM input handed over in memory: one private key (key 2) and its ECHConfig
PemBuffers == { "buf2" }
KeyOfBuffer(b) == 2

SHA256_DIGEST_LENGTH == 32

\* the 2*hashlen hex digits of the SHA-256 digest of the buffer
Sha256Hex(b) ==
  "9F86D081884C7D659A2FEAA0C55AD015A3BF4F1B2B0B822CD15D6C15B0F00A08"

\* ah_hash as a C string: the terminator is written at offset hashlen
AhHash(b) == SubSeq(Sha256Hex(b), 1, SHA256_DIGEST_LENGTH)

\* the loop of SSL_CTX_ech_server_enable_buffer over the stored keys: the
\* test negates the result of memcpy, which is its first argument, so the
\* loop never returns and copies ah_hash over each name of the same length
BufferNameLoop(ech, nechs, ah_hash) ==
  [ j \in 1..Len(ech) |->
      IF j <= nechs /\ ech[j].pemfname # ""
         /\ Len(ech[j].pemfname) = Len(ah_hash)
      THEN [ ech[j] EXCEPT !.pemfname = ah_hash ]
      ELSE ech[j] ]

\* SSL_CTX_ech_server_enable_buffer(ctx, buf, blen): [rv, ctx]
SSL_CTX_ech_server_enable_buffer(c, b, t) ==
  LET ah_hash == AhHash(b)
      c1 == [ c EXCEPT !.ech = BufferNameLoop(c.ech, c.nechs, ah_hash) ]
      sechs == [ cfg |-> << ServerConfig(KeyOfBuffer(b)) >>,
                 pemfname |-> ah_hash, loadtime |-> t,
                 keyshare |-> KeyOfBuffer(b) ]
  IN IF ReadPemInputSwitch(0, Len(b)) # 1 THEN [ rv |-> 0, ctx |-> c1 ]
     ELSE IF Len(sechs.cfg) # 1 THEN [ rv |-> 0, ctx |-> c1 ]
     ELSE [ rv |-> 1,
            ctx |-> [ ech |-> Append(SubSeq(c1.ech, 1, c1.nechs), sechs),
                      isnull |-> FALSE, nechs |-> c1.nechs + 1 ] ]

\* the path SSL_CTX_ech_readpemdir forms for a file of the directory; the
\* model names a file by that path
EchName(filename) == filename

RECURSIVE ReadPemDirLoop(_, _, _, _, _)
\* the loop of SSL_CTX_ech_readpemdir over the names OPENSSL_DIR_read yields
ReadPemDirLoop(c, names, mt, t, number_loaded) ==
  IF names = << >> THEN [ ctx |-> c, number_loaded |-> number_loaded ]
  ELSE LET filename == Head(names)
           nlen == Len(filename)
           last4 == SubSeq(filename, nlen - 3, nlen)
       IN IF nlen <= 4
          THEN ReadPemDirLoop(c, Tail(names), mt, t, number_loaded)
          ELSE IF last4 # ".pem" /\ last4 # ".ech"
          THEN ReadPemDirLoop(c, Tail(names), mt, t, number_loaded)
          ELSE ReadPemDirLoop(
                 SSL_CTX_ech_server_enable(c, EchName(filename), mt, t),
                 Tail(names), mt, t, number_loaded + 1)

\* SSL_CTX_ech_readpemdir(ctx, echdir, number_loaded): [ctx, number_loaded]
SSL_CTX_ech_readpemdir(c, names, mt, t) ==
  ReadPemDirLoop(c, names, mt, t, 0)

\* SSL_ECH_dup(orig, nech, ECH_SELECT_ALL): the copy a connection gets
SSL_ECH_dup_all(orig, nech) == [ i \in 1..nech |-> orig[i] ]

\* SSL_new on a server context: s->ech and s->nechs are copied from the
\* context, the ECH fields of s->ext start cleared
SSL_new(c, trial) ==
  [ isnull |-> c.isnull,
    ech |-> IF c.isnull THEN << >> ELSE SSL_ECH_dup_all(c.ech, c.nechs),
    nechs |-> IF c.isnull THEN 0 ELSE c.nechs,
    trial |-> trial,
    ech_attempted |-> 0, ech_done |-> 0, ech_success |-> 0,
    ech_grease |-> ECH_GREASE_UNKNOWN, ech_backend |-> 0,
    tmp_session_id_len |-> 0, tmp_session_id |-> << >>,
    outer_name |-> [ set |-> FALSE, name |-> << >> ],
    encoded_innerch |-> << >>, innerch |-> << >>, verify_ok |-> TRUE ]

\* the handshake variables while no handshake runs
NoClient == [ rv |-> 0 ]
NoWire == [ kind |-> "none", ch |-> << >> ]
NoSrv == [ rv |-> -1, alert |-> "none", tried |-> << >> ]
NoAc == [ step |-> "none" ]
NoHeap == [ live |-> {}, next |-> 0, faults |-> {} ]

HsIdle ==
  /\ cl = NoClient
  /\ wire = NoWire
  /\ srv = NoSrv
  /\ hpke_sealed = {}
  /\ status = "none"

NoHs == [ outcome |-> "none", success |-> 0, used |-> << >> ]
NoOp == [ op |-> "none", file |-> "", age |-> 0, now |-> 0,
          before |-> << >>, rv |-> 0, hs |-> NoHs ]

(***************************************************************************)
(* ClientHello on the wire                                                 *)
(***************************************************************************)

TLSEXT_TYPE_server_name == 0
TLSEXT_TYPE_supported_groups == 10
TLSEXT_TYPE_signature_algorithms == 13
TLSEXT_TYPE_supported_versions == 43
TLSEXT_TYPE_key_share == 51
TLSEXT_TYPE_ech == 65034
TLSEXT_TYPE_outer_extensions == 64768

SSL3_MT_CLIENT_HELLO == 1
SSL3_MT_SERVER_HELLO == 2
SSL3_RANDOM_SIZE == 32
TLS1_2_VERSION == 771
SSL_MAX_SSL_SESSION_ID_LENGTH == 32

\* the most extension types one outer_extensions may carry (ech_local.h)
ECH_OUTERS_MAX == 10

\* a ClientHello body: legacy_version to the end of the extensions
CHBody(random, sid, suites, exts) ==
  U16(TLS1_2_VERSION) \o random \o << Len(sid) >> \o sid
  \o U16(Len(suites)) \o suites \o << 1, 0 >> \o U16(Len(exts)) \o exts

\* a handshake message: type, 3-octet length, body
HsMsg(mt, body) == << mt >> \o U24(Len(body)) \o body

(***************************************************************************)
(* Inner encoder and decoder                                               *)
(***************************************************************************)

\* is type one of outer_only[0..n_outer_only-1]
InOuterOnly(type, outer_only) ==
  \E ooi \in 1..Len(outer_only) : outer_only[ooi] = type

\* an outer_extensions extension whose first octet counts types, not octets
OuterExtsExtCountsTypes(outer_only) ==
  U16(TLSEXT_TYPE_outer_extensions) \o U16(2 * Len(outer_only) + 1)
  \o << Len(outer_only) % 256 >>
  \o [ i \in 1..(2 * Len(outer_only)) |->
         U16(outer_only[((i - 1) \div 2) + 1])[((i - 1) % 2) + 1] ]

\* the outer_extensions extension that ech_encode_inner writes
OuterExtsExt(outer_only) ==
  U16(TLSEXT_TYPE_outer_extensions) \o U16(2 * Len(outer_only) + 1)
  \o << (2 * Len(outer_only)) % 256 >>
  \o [ i \in 1..(2 * Len(outer_only)) |->
         U16(outer_only[((i - 1) \div 2) + 1])[((i - 1) % 2) + 1] ]

RECURSIVE EncodeExtsLoop(_, _, _)
\* the loop of ech_encode_inner over raws[ind..nraws-1]
EncodeExtsLoop(raws, compression_done, outer_only) ==
  IF raws = << >> THEN << >>
  ELSE LET r == Head(raws)
           tobecompressed == InOuterOnly(r.type, outer_only)
       IN IF ~r.present
          THEN EncodeExtsLoop(Tail(raws), compression_done, outer_only)
          ELSE (IF ~compression_done /\ tobecompressed
                THEN OuterExtsExt(outer_only) ELSE << >>)
               \o (IF ~tobecompressed THEN ExtBytes(r.type, r.data) ELSE << >>)
               \o EncodeExtsLoop(Tail(raws),
                                 compression_done \/ tobecompressed, outer_only)

\* ech_encode_inner: s->ext.encoded_innerch
ech_encode_inner(client_version, client_random, ciphers, raws, outer_only) ==
  LET exts == EncodeExtsLoop(raws, FALSE, outer_only)
      full == HsMsg(SSL3_MT_CLIENT_HELLO,
                U16(client_version) \o client_random \o << 0 >>
                \o U16(Len(ciphers)) \o ciphers \o << 1, 0 >>
                \o U16(Len(exts)) \o exts)
  IN Slice(full, 4, Len(full) - 4)

RECURSIVE FindOuterExts(_, _, _)
\* the first loop of ech_decode_inner: skip extensions until outer_extensions
FindOuterExts(buf, oneextstart, remaining) ==
  IF remaining <= 0
  THEN [ found |-> FALSE, oneextstart |-> oneextstart, elen |-> 0 ]
  ELSE LET etype == Rd16(buf, oneextstart)
           elen == Rd16(buf, oneextstart + 2)
       IN IF etype = TLSEXT_TYPE_outer_extensions
          THEN [ found |-> TRUE, oneextstart |-> oneextstart, elen |-> elen ]
          ELSE FindOuterExts(buf, oneextstart + elen + 4, remaining - (elen + 4))

RECURSIVE ScanOuter(_, _, _, _, _)
\* the second loop of ech_decode_inner: walk the outer extensions and note
\* size and offset of each one named in outers
ScanOuter(ob, ep, remaining, outers, acc) ==
  IF remaining <= 0 THEN acc
  ELSE LET etype == Rd16(ob, ep)
           elen == Rd16(ob, ep + 2)
           hits == { iind \in 1..Len(outers) : outers[iind] = etype }
           acc2 == [ sizes |-> [ i \in 1..Len(outers) |->
                                   IF i \in hits THEN elen ELSE acc.sizes[i] ],
                     offsets |-> [ i \in 1..Len(outers) |->
                                   IF i \in hits THEN ep ELSE acc.offsets[i] ],
                     tot |-> acc.tot + Cardinality(hits) * (elen + 4),
                     found |-> acc.found + Cardinality(hits) ]
       IN ScanOuter(ob, ep + elen + 4, remaining - (elen + 4), outers, acc2)

RECURSIVE SpliceOuters(_, _, _, _)
\* the splice loop of ech_decode_inner: type, length and value of each outer
SpliceOuters(ob, outers, acc, iind) ==
  IF iind > Len(outers) THEN << >>
  ELSE U16(outers[iind]) \o U16(acc.sizes[iind])
       \o Slice(ob, acc.offsets[iind] + 4, acc.sizes[iind])
       \o SpliceOuters(ob, outers, acc, iind + 1)

\* a decoder that leaves the extensions length of the encoded inner as it is
FixExtsLenStale(final_decomp, startofexts, tot_outer_lens, outer_exts_len) ==
  final_decomp

\* the extensions-length fix-up at the end of ech_decode_inner
FixExtsLen(final_decomp, startofexts, tot_outer_lens, outer_exts_len) ==
  LET initial_extslen == Rd16(final_decomp, startofexts + 4)
      final_extslen == initial_extslen + tot_outer_lens - outer_exts_len
  IN [ final_decomp EXCEPT ![startofexts + 5] = (final_extslen \div 256) % 256,
                           ![startofexts + 6] = final_extslen % 256 ]

\* ech_decode_inner: [rv, innerch]
ech_decode_inner(encoded_innerch, tmp_session_id, ob, outer_startofexts) ==
  LET offset2sessid == 2 + 32
      sidlen == Len(tmp_session_id)
      initial_decomp_len == Len(encoded_innerch) + sidlen
      suiteslen == Rd16(encoded_innerch, offset2sessid + 1)
      startofexts == offset2sessid + 1 + sidlen + 2 + suiteslen + 2
  IN With(Slice(encoded_innerch, 0, offset2sessid) \o << sidlen >>
          \o tmp_session_id
          \o Slice(encoded_innerch, offset2sessid + 1,
                   Len(encoded_innerch) - offset2sessid - 1),
     LAMBDA initial_decomp :
     With(FindOuterExts(initial_decomp, startofexts + 2,
                        Rd16(initial_decomp, startofexts)),
     LAMBDA f :
     With([ i \in 1..(f.elen \div 2) |->
              Rd16(initial_decomp, f.oneextstart + 5 + 2 * (i - 1)) ],
     LAMBDA outers :
     With(ScanOuter(ob, outer_startofexts + 2,
                    Len(ob) - outer_startofexts - 2, outers,
                    [ sizes |-> [ i \in 1..Len(outers) |-> 0 ],
                      offsets |-> [ i \in 1..Len(outers) |-> 0 ],
                      tot |-> 0, found |-> 0 ]),
     LAMBDA acc :
       LET n_outers == f.elen \div 2
           slen == At(initial_decomp, f.oneextstart + 4)
           outer_exts_len == 5 + 2 * n_outers
           final_decomp_len == 4 + initial_decomp_len - outer_exts_len + acc.tot
           final_decomp ==
             << 1 >> \o U24(final_decomp_len - 4)
             \o Slice(initial_decomp, 0, f.oneextstart)
             \o SpliceOuters(ob, outers, acc, 1)
             \o Slice(initial_decomp, f.oneextstart + outer_exts_len,
                      initial_decomp_len - f.oneextstart - outer_exts_len)
       IN IF startofexts > initial_decomp_len
          THEN [ rv |-> 0, innerch |-> << >> ]
          ELSE IF ~f.found
          THEN [ rv |-> 1,
                 innerch |-> << 1 >> \o U24(initial_decomp_len)
                             \o initial_decomp ]
          ELSE IF n_outers # slen \div 2 THEN [ rv |-> 0, innerch |-> << >> ]
          ELSE IF n_outers <= 0 \/ n_outers > ECH_OUTERS_MAX
          THEN [ rv |-> 0, innerch |-> << >> ]
          ELSE IF acc.found # n_outers THEN [ rv |-> 0, innerch |-> << >> ]
          ELSE [ rv |-> 1,
                 innerch |-> FixExtsLen(final_decomp, startofexts, acc.tot,
                                        outer_exts_len) ]))))

(***************************************************************************)
(* HPKE, as the collaborator of section 4.4: Base mode, one-shot.  A       *)
(* sealed message is remembered with everything it was sealed under; open  *)
(* succeeds exactly for a remembered message presented with the same       *)
(* suite, recipient key, enc, info and AAD.                                *)
(***************************************************************************)

SupportedKems == { HPKE_KEM_ID_25519, HPKE_KEM_ID_P256 }
SupportedKdfs == { HPKE_KDF_ID_HKDF_SHA256, HPKE_KDF_ID_HKDF_SHA384 }
SupportedAeads == { HPKE_AEAD_ID_AES_GCM_128 }

\* hpke_suite_check: 1 when kem, kdf and aead are all supported
hpke_suite_check(suite) ==
  IF /\ suite.kem_id \in SupportedKems
     /\ suite.kdf_id \in SupportedKdfs
     /\ suite.aead_id \in SupportedAeads
  THEN 1 ELSE 0

HPKE_SUITE_DEFAULT ==
  [ kem_id |-> HPKE_KEM_ID_25519, kdf_id |-> HPKE_KDF_ID_HKDF_SHA256,
    aead_id |-> HPKE_AEAD_ID_AES_GCM_128 ]

\* octets of an AEAD tag
AeadTagLen == 16

\* hpke_kg_evp: the ephemeral key pair of the client
hpke_kg_evp(suite) ==
  IF hpke_suite_check(suite) # 1 THEN [ rv |-> 0, pub |-> << >> ]
  ELSE [ rv |-> 1, pub |-> Fill(KemNpk(suite.kem_id), 238) ]

\* the ciphertext octets of a sealed message: as long as the clear text
\* plus the tag
CipherOctets(clear) ==
  [ i \in 1..Len(clear) |-> (clear[i] + 85) % 256 ] \o Fill(AeadTagLen, 170)

\* hpke_enc_evp: [rv, cipher]
hpke_enc_evp(suite, peerpub, clear, aad, info, mypub) ==
  IF hpke_suite_check(suite) # 1 \/ Len(peerpub) # KemNpk(suite.kem_id)
  THEN [ rv |-> 0, cipher |-> << >> ]
  ELSE [ rv |-> 1, cipher |-> CipherOctets(clear) ]

\* what a successful hpke_enc_evp leaves for hpke_dec to recognise
SealedBox(suite, peerpub, clear, aad, info, mypub) ==
  [ suite |-> suite, pub |-> peerpub, enc |-> mypub, info |-> info,
    aad |-> aad, clear |-> clear, cipher |-> CipherOctets(clear) ]

\* hpke_dec with the private key priv: [rv, clear]
hpke_dec(sealed, suite, priv, senderpub, cipher, aad, info) ==
  LET m == { b \in sealed : /\ b.suite = suite
                             /\ b.pub = PubOf(priv)
                             /\ b.enc = senderpub
                             /\ b.cipher = cipher
                             /\ b.aad = aad
                             /\ b.info = info }
  IN IF hpke_suite_check(suite) # 1 \/ m = {}
     THEN [ rv |-> 0, clear |-> << >> ]
     ELSE [ rv |-> 1, clear |-> (CHOOSE b \in m : TRUE).clear ]

(***************************************************************************)
(* Client assembler                                                        *)
(***************************************************************************)

\* "tls ech"
ECH_CONTEXT_STRING == << 116, 108, 115, 32, 101, 99, 104 >>

\* ech_make_enc_info: "tls ech", a zero octet, the encoding of the config
ech_make_enc_info(tc) == ECH_CONTEXT_STRING \o << 0 >> \o tc.encoding

\* the test of the selection loop that sets prefind for config ltc
NameTest(outer_name, ltc) ==
  /\ outer_name.set
  /\ ltc.public_name # outer_name.name

RECURSIVE SuiteLoop(_, _, _, _)
\* the inner loop of the selection: the suites csuite.. of config cind
SuiteLoop(ltc, cind, csuite, st) ==
  IF csuite > Len(ltc.ciphersuites) THEN st
  ELSE LET es == ltc.ciphersuites[csuite]
           st1 == [ st EXCEPT !.hpke_suite.kdf_id = es.kdf,
                              !.hpke_suite.aead_id = es.aead ]
       IN IF hpke_suite_check(st1.hpke_suite) = 1
          THEN IF st1.prefind # -1
               THEN [ st1 EXCEPT !.tc = cind ]
               ELSE SuiteLoop(ltc, cind, csuite + 1,
                      IF st1.firstmatch = 0
                      THEN [ st1 EXCEPT !.firstmatch = cind ] ELSE st1)
          ELSE SuiteLoop(ltc, cind, csuite + 1, st1)

RECURSIVE ConfigLoop(_, _, _, _)
\* the outer loop of the selection: the configs cind.. of the list; tc and
\* firstmatch are positions in the list, 0 for NULL
ConfigLoop(recs, outer_name, cind, st) ==
  IF cind > Len(recs) THEN st
  ELSE LET ltc == recs[cind]
           st1 == [ st EXCEPT
                      !.prefind = IF NameTest(outer_name, ltc)
                                  THEN cind - 1 ELSE st.prefind,
                      !.hpke_suite.kem_id = ltc.kem_id ]
       IN ConfigLoop(recs, outer_name, cind + 1, SuiteLoop(ltc, cind, 1, st1))

\* the config ech_aad_and_encrypt selects (0: none) and the suite it
\* goes on to use
SelectConfig(recs, outer_name) ==
  LET st == ConfigLoop(recs, outer_name, 1,
              [ prefind |-> -1, tc |-> 0, firstmatch |-> 0,
                hpke_suite |-> HPKE_SUITE_DEFAULT ])
  IN [ tc |-> IF st.tc = 0 THEN st.firstmatch ELSE st.tc,
       hpke_suite |-> st.hpke_suite ]

\* the AAD of ech_aad_and_encrypt, over the packet written so far
ClientAad(hpke_suite, config_id, mypub, pkt) ==
  U16(hpke_suite.kdf_id) \o U16(hpke_suite.aead_id) \o << config_id % 256 >>
  \o U16(Len(mypub)) \o mypub
  \o U24(Len(pkt) - 4) \o Slice(pkt, 4, Len(pkt) - 4)

\* the ECH extension ech_aad_and_encrypt appends to the packet
EchExt(hpke_suite, config_id, mypub, cipher) ==
  U16(TLSEXT_TYPE_ech)
  \o U16(2 + 2 + 1 + 2 + Len(mypub) + 2 + Len(cipher))
  \o U16(hpke_suite.kdf_id) \o U16(hpke_suite.aead_id) \o << config_id % 256 >>
  \o U16(Len(mypub)) \o mypub \o U16(Len(cipher)) \o cipher

\* the packet with the extensions length counting the value of the new
\* extension but not its type and length
FixOuterExtsLenValueOnly(pkt, tmp_session_id_len, newlen) ==
  LET startofexts == 6 + 32 + 1 + tmp_session_id_len
                     + Rd16(pkt, 6 + 32 + 1 + tmp_session_id_len) + 2 + 2
      newextlens == Rd16(pkt, startofexts) + newlen - 4
  IN [ pkt EXCEPT ![startofexts + 1] = (newextlens % 65536) \div 256,
                  ![startofexts + 2] = (newextlens % 65536) % 256 ]

\* the rewrite of the extensions length at the end of ech_aad_and_encrypt
FixOuterExtsLen(pkt, tmp_session_id_len, newlen) ==
  LET genoffset == 6 + 32 + 1 + tmp_session_id_len
      suiteslen == Rd16(pkt, genoffset)
      startofexts == genoffset + suiteslen + 2 + 2
      newextlens == Rd16(pkt, startofexts) + newlen
  IN [ pkt EXCEPT ![startofexts + 1] = (newextlens % 65536) \div 256,
                  ![startofexts + 2] = (newextlens % 65536) % 256 ]

\* ech_aad_and_encrypt once a config is selected: tc is the config, kg the
\* ephemeral key pair, aad and info what the inner ClientHello is sealed under
SealAndAppend(sel, tc, kg, aad, info, encoded_innerch, sidlen, pkt, fail) ==
  With(hpke_enc_evp(sel.hpke_suite, tc.pub, encoded_innerch, aad, info, kg.pub),
  LAMBDA e :
    LET newlen == 6 + 2 + 2 + 3 + Len(kg.pub) + Len(e.cipher)
    IN IF Len(tc.pub) <= 0 \/ kg.rv # 1 \/ e.rv # 1 THEN fail
       ELSE [ rv |-> 1, alert |-> "none", tc |-> sel.tc,
              hpke_suite |-> sel.hpke_suite,
              pkt |-> FixOuterExtsLen(
                        pkt \o EchExt(sel.hpke_suite, tc.config_id,
                                      kg.pub, e.cipher),
                        sidlen, newlen),
              sealed |-> { SealedBox(sel.hpke_suite, tc.pub,
                             encoded_innerch, aad, info, kg.pub) } ])

\* ech_aad_and_encrypt(s, pkt): [rv, alert, tc, hpke_suite, pkt, sealed]
ech_aad_and_encrypt(cfgs, outer_name, encoded_innerch, tmp_session_id_len, pkt) ==
  With(SelectConfig(cfgs, outer_name),
  LAMBDA sel :
    With([ rv |-> 0, alert |-> "internal_error", tc |-> sel.tc,
           hpke_suite |-> sel.hpke_suite, pkt |-> pkt, sealed |-> {} ],
    LAMBDA fail :
      IF sel.tc = 0 THEN fail
      ELSE With(hpke_kg_evp(sel.hpke_suite),
           LAMBDA kg :
             SealAndAppend(sel, cfgs[sel.tc], kg,
                           ClientAad(sel.hpke_suite, cfgs[sel.tc].config_id,
                                     kg.pub, pkt),
                           ech_make_enc_info(cfgs[sel.tc]), encoded_innerch,
                           tmp_session_id_len, pkt, fail))))

(***************************************************************************)
(* Server decoder                                                          *)
(***************************************************************************)

MAX_ECH_ENC_LEN == 1024
MAX_ECH_PAYLOAD_LEN == 16384

RECURSIVE OffsetsLoop(_, _, _, _)
\* the loop of ech_get_offsets over the extensions that start at e_start
OffsetsLoop(ch, e_start, extsremaining, acc) ==
  IF extsremaining <= 0 THEN acc
  ELSE LET etype == Rd16(ch, e_start)
           elen == Rd16(ch, e_start + 2)
           acc2 == IF etype = TLSEXT_TYPE_ech
                   THEN [ acc EXCEPT !.echoffset = e_start ]
                   ELSE IF etype = TLSEXT_TYPE_server_name
                   THEN [ acc EXCEPT !.snioffset = e_start ]
                   ELSE acc
       IN OffsetsLoop(ch, e_start + 4 + elen, extsremaining - (4 + elen), acc2)

\* the bounds test ech_get_offsets makes before it walks the extensions
OffsetsBoundsTest(startofexts, ch_len) ==
  (startofexts + 2) > (ch_len - startofexts)

\* ech_get_offsets: [rv, sessid, exts, echoffset, snioffset]
ech_get_offsets(ch) ==
  LET ch_len == Len(ch)
      sessid == 2 + 32
      sessid_len == At(ch, sessid)
      genoffset == sessid + 1 + sessid_len
      suiteslen == Rd16(ch, genoffset)
      startofexts == genoffset + suiteslen + 2 + 2
      none == [ rv |-> 1, sessid |-> sessid, exts |-> 0, echoffset |-> 0,
                snioffset |-> 0 ]
  IN IF startofexts = ch_len THEN none
     ELSE IF startofexts > ch_len THEN [ none EXCEPT !.rv = 0 ]
     ELSE IF OffsetsBoundsTest(startofexts, ch_len)
     THEN [ none EXCEPT !.rv = 0, !.exts = startofexts ]
     ELSE OffsetsLoop(ch, startofexts + 2, Rd16(ch, startofexts) - 2,
                      [ none EXCEPT !.exts = startofexts ])

\* ech_srv_get_aad: the AAD the server rebuilds
ech_srv_get_aad(kdf_id, aead_id, pub, config_id, de) ==
  U16(kdf_id % 65536) \o U16(aead_id % 65536) \o << config_id % 256 >>
  \o U16(Len(pub) % 65536) \o pub
  \o << ((Len(de) % 16777216) \div 65536) % 256,
        ((Len(de) % 65536) \div 256) % 256,
        (Len(de) % 65536) % 256 >>
  \o de

\* the outer ClientHello with the ECH extension cut out and the
\* extensions length left as it was
DecodedOuterKeepsLen(ch, startofexts, echoffset, echlen) ==
  Slice(ch, 0, echoffset)

\* the outer ClientHello with the ECH extension cut out, as
\* ech_early_decrypt assembles it in de[0..de_len-1]
DecodedOuter(ch, startofexts, echoffset, echlen) ==
  LET ch_len == Len(ch)
      newextlens == ch_len - echlen - startofexts - 6
      beforeECH == echoffset - startofexts - 2
      afterECH == ch_len - (echoffset + echlen)
      de_len == ch_len - echlen - 4
      written == Slice(ch, 0, startofexts)
                 \o << (newextlens % 65536) \div 256,
                       (newextlens % 65536) % 256 >>
                 \o Slice(ch, startofexts + 2, beforeECH)
                 \o Slice(ch, startofexts + 2 + beforeECH + echlen, afterECH)
  IN Slice(written, 0, de_len)

\* the parse of the ECH extension value in ech_early_decrypt:
\* [ok, kdf_id, aead_id, config_id, enc, payload]
ParseEch(echpkt) ==
  LET n == Len(echpkt)
      bad == [ ok |-> FALSE, kdf_id |-> 0, aead_id |-> 0, config_id |-> 0,
               enc |-> << >>, payload |-> << >> ]
      enc_len == Rd16(echpkt, 5)
      payload_len == Rd16(echpkt, 7 + enc_len)
  IN IF n < 2 THEN bad
     ELSE IF n < 4 THEN bad
     ELSE IF n < 5 THEN bad
     ELSE IF n < 7 THEN bad
     ELSE IF enc_len > MAX_ECH_ENC_LEN THEN bad
     ELSE IF enc_len > n - 7 THEN bad
     ELSE IF n - 7 - enc_len < 2 THEN bad
     ELSE IF payload_len > MAX_ECH_PAYLOAD_LEN THEN bad
     ELSE IF payload_len > n - 9 - enc_len THEN bad
     ELSE [ ok |-> TRUE, kdf_id |-> Rd16(echpkt, 0),
            aead_id |-> Rd16(echpkt, 2), config_id |-> At(echpkt, 4),
            enc |-> Slice(echpkt, 7, enc_len),
            payload |-> Slice(echpkt, 9 + enc_len, payload_len) ]

\* early_hpke_decrypt_encch with the key in slot ech: [rv, clear]
early_hpke_decrypt_encch(sealed, ech, the_ech, aad) ==
  hpke_dec(sealed,
           [ kem_id |-> ech.cfg[1].kem_id, kdf_id |-> the_ech.kdf_id,
             aead_id |-> the_ech.aead_id ],
           ech.keyshare, the_ech.enc, the_ech.payload, aad,
           ech_make_enc_info(ech.cfg[1]))

\* how many slots the loops of ech_early_decrypt visit: s->ech->cfg->nrecs
KeyLoopBound(ech) == Len(ech[1].cfg)

RECURSIVE MatchLoop(_, _, _, _)
\* the config_id comparison loop: the first slot cfgind (0-based) below
\* bound whose config_id equals the received one, or bound if there is none
MatchLoop(ech, config_id, cfgind, bound) ==
  IF cfgind = bound THEN cfgind
  ELSE IF ech[cfgind + 1].cfg[1].config_id = config_id THEN cfgind
  ELSE MatchLoop(ech, config_id, cfgind + 1, bound)

RECURSIVE TrialLoop(_, _, _, _, _, _, _)
\* the trial decryption loop: [clear, ok, tried]
TrialLoop(sealed, ech, the_ech, aad, cfgind, bound, tried) ==
  IF cfgind = bound THEN [ ok |-> FALSE, clear |-> << >>, tried |-> tried ]
  ELSE With(early_hpke_decrypt_encch(sealed, ech[cfgind + 1], the_ech, aad),
       LAMBDA d :
         IF d.rv = 1
         THEN [ ok |-> TRUE, clear |-> d.clear,
                tried |-> Append(tried, cfgind) ]
         ELSE TrialLoop(sealed, ech, the_ech, aad, cfgind + 1, bound,
                        Append(tried, cfgind)))

\* does ech_early_decrypt go on to trial decryption
TrialTest(foundcfg, trial) == ~foundcfg /\ trial

\* the key selection of ech_early_decrypt: [ok, clear, tried]
KeySelection(sealed, ech, trial, the_ech, aad) ==
  LET bound == KeyLoopBound(ech)
  IN With(MatchLoop(ech, the_ech.config_id, 0, bound),
     LAMBDA cfgind :
       LET foundcfg == cfgind # bound
       IN IF foundcfg
          THEN With(early_hpke_decrypt_encch(sealed, ech[cfgind + 1],
                                             the_ech, aad),
               LAMBDA d : [ ok |-> d.rv = 1, clear |-> d.clear,
                            tried |-> << cfgind >> ])
          ELSE IF TrialTest(foundcfg, trial)
          THEN TrialLoop(sealed, ech, the_ech, aad, 0, bound, << >>)
          ELSE [ ok |-> FALSE, clear |-> << >>, tried |-> << >> ])

\* tls_parse_ctos_server_name on the value of a server_name extension:
\* a list with one host_name entry
tls_parse_ctos_server_name(data) ==
  IF /\ Len(data) >= 5
     /\ Rd16(data, 0) = Len(data) - 2
     /\ At(data, 2) = 0
     /\ Rd16(data, 3) = Len(data) - 5
  THEN [ rv |-> 1, hostname |-> Slice(data, 5, Len(data) - 5) ]
  ELSE [ rv |-> 0, hostname |-> << >> ]

\* the value of a server_name extension that names one host
SniData(name) == U16(Len(name) + 3) \o << 0 >> \o U16(Len(name)) \o name

\* a connection that loses its keys when no key opened the payload
DecryptDoneDropsKeys(c, ok) ==
  [ c EXCEPT !.ech_done = 1,
             !.ech_grease = IF ok THEN ECH_NOT_GREASE ELSE ECH_IS_GREASE,
             !.ech_success = IF ok THEN 1 ELSE 0,
             !.ech = IF ok THEN @ ELSE << >>,
             !.nechs = IF ok THEN @ ELSE 0 ]

\* a connection on which a failed open is not recorded as GREASE
DecryptDoneNoGrease(c, ok) ==
  [ c EXCEPT !.ech_done = 1,
             !.ech_success = IF ok THEN 1 ELSE 0 ]

\* what ech_early_decrypt writes to the connection once the key selection
\* is over, ok telling whether a key opened the payload (clear != NULL)
DecryptDone(c, ok) ==
  [ c EXCEPT !.ech_done = 1,
             !.ech_grease = IF ok THEN ECH_NOT_GREASE ELSE ECH_IS_GREASE,
             !.ech_success = IF ok THEN 1 ELSE 0 ]

\* ech_early_decrypt(s, outerpkt, newpkt): the connection afterwards,
\* the return value, the alert raised and the key slots HPKE open was
\* tried with
ech_early_decrypt(c, sealed, ch) ==
  LET ret(c2, rv, alert, tried) ==
        [ conn |-> c2, rv |-> rv, alert |-> alert, tried |-> tried ]
  IN With(ech_get_offsets(ch),
     LAMBDA o :
     With(At(ch, o.sessid),
     LAMBDA sidlen :
     With([ c EXCEPT !.ech_attempted = 1,
                     !.tmp_session_id_len = sidlen,
                     !.tmp_session_id = Slice(ch, o.sessid + 1, sidlen) ],
     LAMBDA c2 :
     With(tls_parse_ctos_server_name(
            Slice(ch, o.snioffset + 4, Rd16(ch, o.snioffset + 2))),
     LAMBDA sni :
     With(Rd16(ch, o.echoffset + 2),
     LAMBDA echlen :
     With(ParseEch(Slice(ch, o.echoffset + 4, echlen)),
     LAMBDA extval :
       LET c1 == [ c EXCEPT !.ech_attempted = 1 ]
           c3 == IF o.snioffset > 0
                 THEN [ c2 EXCEPT !.outer_name = [ set |-> TRUE,
                                                   name |-> sni.hostname ] ]
                 ELSE c2
           c4 == [ c3 EXCEPT !.ech_grease = ECH_GREASE_UNKNOWN ]
       IN IF o.rv # 1 THEN ret(c, o.rv, "none", << >>)
          ELSE IF o.echoffset = 0 THEN ret(c, 1, "none", << >>)
          ELSE IF sidlen > SSL_MAX_SSL_SESSION_ID_LENGTH
          THEN ret([ c1 EXCEPT !.tmp_session_id_len = sidlen ], 0,
                   "decode_error", << >>)
          ELSE IF o.snioffset > 0 /\ sni.rv # 1
          THEN ret(c2, 0, "decode_error", << >>)
          ELSE IF ~extval.ok THEN ret(c3, 0, "decode_error", << >>)
          ELSE IF KeyLoopBound(c.ech) = 0
          THEN ret(c4, 0, "decode_error", << >>)
          ELSE
          With(KeySelection(sealed, c.ech, c.trial, extval,
                 ech_srv_get_aad(extval.kdf_id, extval.aead_id, extval.enc,
                   extval.config_id,
                   DecodedOuter(ch, o.exts, o.echoffset, echlen))),
          LAMBDA k :
            LET c5 == DecryptDone(c4, k.ok)
                c6 == [ c5 EXCEPT !.encoded_innerch = k.clear ]
            IN IF ~k.ok THEN ret(c5, 1, "none", k.tried)
               ELSE With(ech_decode_inner(k.clear, c2.tmp_session_id, ch,
                                          o.exts),
                    LAMBDA d :
                      IF d.rv # 1
                      THEN ret(c6, 0, "internal_error", k.tried)
                      ELSE ret([ c6 EXCEPT !.innerch = d.innerch ], 1,
                               "none", k.tried)))))))))

SSL_ECH_STATUS_BACKEND == "BACKEND"
SSL_ECH_STATUS_GREASE == "GREASE"
SSL_ECH_STATUS_SUCCESS == "SUCCESS"
SSL_ECH_STATUS_FAILED == "FAILED"
SSL_ECH_STATUS_BAD_NAME == "BAD_NAME"
SSL_ECH_STATUS_NOT_TRIED == "NOT_TRIED"
SSL_ECH_STATUS_NOT_CONFIGURED == "NOT_CONFIGURED"

\* the status when the verify result is not looked at
StatusWithoutVerify(c) ==
  IF c.ech_grease = ECH_IS_GREASE THEN SSL_ECH_STATUS_GREASE
  ELSE IF c.ech_backend # 0 THEN SSL_ECH_STATUS_BACKEND
  ELSE IF c.isnull THEN SSL_ECH_STATUS_NOT_CONFIGURED
  ELSE IF c.ech_attempted = 1 /\ c.ech_grease # ECH_IS_GREASE
  THEN IF c.ech_success = 1 THEN SSL_ECH_STATUS_SUCCESS
       ELSE SSL_ECH_STATUS_FAILED
  ELSE SSL_ECH_STATUS_NOT_TRIED

\* SSL_ech_get_status(s, inner_sni, outer_sni): the status returned
SSL_ech_get_status(c) ==
  IF c.ech_grease = ECH_IS_GREASE THEN SSL_ECH_STATUS_GREASE
  ELSE IF c.ech_backend # 0 THEN SSL_ECH_STATUS_BACKEND
  ELSE IF c.isnull THEN SSL_ECH_STATUS_NOT_CONFIGURED
  ELSE IF c.ech_attempted = 1 /\ c.ech_grease # ECH_IS_GREASE
  THEN IF c.ech_success = 1
       THEN IF c.verify_ok THEN SSL_ECH_STATUS_SUCCESS
            ELSE SSL_ECH_STATUS_BAD_NAME
       ELSE SSL_ECH_STATUS_FAILED
  ELSE SSL_ECH_STATUS_NOT_TRIED


(***************************************************************************)
(* Handshake: the client builds inner and outer ClientHello, the server    *)
(* receives a ClientHello and runs ech_early_decrypt                       *)
(***************************************************************************)

\* at most MaxCfgs configurations in the list the client was given
MaxCfgs == 2

InnerName == << 105, 46, 99 >>
InnerRandom == Fill(SSL3_RANDOM_SIZE, 17)
OuterRandom == Fill(SSL3_RANDOM_SIZE, 34)
Ciphers == << 19, 1 >>

RawExt(type, data, present) ==
  [ type |-> type, data |-> data, present |-> present ]

TLSEXT_TYPE_status_request == 5

\* clienthello->pre_proc_exts of the inner ClientHello
InnerRaws ==
  << RawExt(TLSEXT_TYPE_server_name, SniData(InnerName), TRUE),
     RawExt(TLSEXT_TYPE_supported_groups, << 0, 2, 0, 29 >>, TRUE),
     RawExt(TLSEXT_TYPE_status_request, << >>, FALSE),
     RawExt(TLSEXT_TYPE_signature_algorithms, << 0, 2, 8, 4 >>, TRUE),
     RawExt(TLSEXT_TYPE_key_share, << 0, 14, 0, 29, 0, 10 >> \o Fill(10, 51),
            TRUE) >>

\* the types ech_outer_indep marks: the outer ClientHello gets its own value
ech_outer_indep == { TLSEXT_TYPE_server_name, TLSEXT_TYPE_key_share }

\* the value the outer ClientHello constructor writes for an independent type
OuterOwnValue(type, outer_sni) ==
  IF type = TLSEXT_TYPE_server_name THEN SniData(outer_sni)
  ELSE << 0, 14, 0, 29, 0, 10 >> \o Fill(10, 68)

RECURSIVE OuterExts(_, _)
\* the extensions of the outer ClientHello: ech_same_ext on its second call
\* copies the inner value unless the type is independent
OuterExts(raws, outer_sni) ==
  IF raws = << >> THEN << >>
  ELSE LET r == Head(raws)
       IN (IF ~r.present THEN << >>
           ELSE IF r.type \in ech_outer_indep
           THEN ExtBytes(r.type, OuterOwnValue(r.type, outer_sni))
           ELSE ExtBytes(r.type, r.data))
          \o OuterExts(Tail(raws), outer_sni)

\* the outer ClientHello message as written before ech_aad_and_encrypt
OuterPkt(c) ==
  HsMsg(SSL3_MT_CLIENT_HELLO,
        CHBody(OuterRandom, c.sid, Ciphers,
               OuterExts(c.raws,
                         IF c.outer_name.set THEN c.outer_name.name
                         ELSE c.cfgs[1].public_name)))

\* the inner ClientHello message the client keeps, with the session id sid
InnerHello(raws, sid) ==
  HsMsg(SSL3_MT_CLIENT_HELLO,
        CHBody(InnerRandom, sid, Ciphers,
               ExtsBytes(SelectSeq(raws, LAMBDA r : r.present))))

\* the sub-sequences of the types of the present extensions, in list order
PresentTypes(raws) ==
  LET pr == SelectSeq(raws, LAMBDA r : r.present)
  IN [ i \in 1..Len(pr) |-> pr[i].type ]

RECURSIVE SubSeqs(_)
SubSeqs(q) ==
  IF q = << >> THEN { << >> }
  ELSE LET rest == SubSeqs(Tail(q))
       IN rest \cup { << Head(q) >> \o r : r \in rest }

\* lists of 1..n distinct members of S
ListsOf(S, n) ==
  { q \in UNION { [ 1..m -> S ] : m \in 1..n } :
      \A i, j \in 1..Len(q) : i # j => q[i] # q[j] }

\* configurations a client may have been given besides the server's own
ConfigBadSuite ==
  MkConfig(5, HPKE_KEM_ID_25519, PubOf(2), << SuiteBad >>, NameB)
ConfigTwoSuites ==
  MkConfig(6, HPKE_KEM_ID_25519, PubOf(1), << SuiteOk2, SuiteBad >>, NameA)
ClientConfigs ==
  { ServerConfig(k) : k \in KeyIds } \cup { ConfigBadSuite, ConfigTwoSuites }

NameUnset == [ set |-> FALSE, name |-> << >> ]
NameSet(n) == [ set |-> TRUE, name |-> n ]

RECURSIVE LoadStore(_, _)
\* the store after SSL_CTX_ech_server_enable on each file of the list
LoadStore(c, files) ==
  IF files = << >> THEN c
  ELSE LoadStore(SSL_CTX_ech_server_enable(c, Head(files),
                                           [ f \in PemFiles |-> 0 ], 0),
                 Tail(files))

EmptyCtx == [ ech |-> << >>, isnull |-> TRUE, nechs |-> 0 ]

Scenario(store, trial, cfgs, outer_name, outer_only, sid) ==
  [ store |-> store, trial |-> trial, cfgs |-> cfgs,
    outer_name |-> outer_name, outer_only |-> outer_only, sid |-> sid ]

\* the handshakes explored: every compression set with one key; every store
\* with one configuration; every configuration list with one key
Scenarios ==
  { Scenario(<< "k1.pem" >>, FALSE, << ServerConfig(1) >>, NameUnset, p, sid) :
      p \in SubSeqs(PresentTypes(InnerRaws)), sid \in { << >>, Fill(8, 9) } }
  \cup
  { Scenario(st, tr, << ServerConfig(k) >>, NameUnset, << >>, Fill(8, 9)) :
      st \in ListsOf(PemFiles, MaxKeys), tr \in BOOLEAN, k \in KeyIds }
  \cup
  { Scenario(<< "k1.pem" >>, FALSE, l, n, << >>, Fill(8, 9)) :
      l \in ListsOf(ClientConfigs, MaxCfgs),
      n \in { NameUnset, NameSet(NameA), NameSet(NameB) } }

\* the value of the ECH extension the client wrote
SentEchBody(c) ==
  LET l0 == Len(OuterPkt(c))
  IN Slice(c.pkt, l0 + 4, Len(c.pkt) - l0 - 4)

\* the ClientHello body of the client with the ECH value replaced by body
WithEchBody(c, body) ==
  CHBody(OuterRandom, c.sid, Ciphers,
         OuterExts(c.raws, IF c.outer_name.set THEN c.outer_name.name
                           ELSE c.cfgs[1].public_name)
         \o ExtBytes(TLSEXT_TYPE_ech, body))

\* a ClientHello body with a 32-octet session id and two extensions, the
\* second an ECH extension with the value body
SmallHello(body) ==
  CHBody(OuterRandom, Fill(SSL_MAX_SSL_SESSION_ID_LENGTH, 9), Ciphers,
         ExtBytes(TLSEXT_TYPE_supported_versions, << 2, 3, 4 >>)
         \o ExtBytes(TLSEXT_TYPE_ech, body))

\* an ECH value: suite, config_id, enc and payload with their lengths
EchBody(kdf, aead, config_id, enc, payload) ==
  U16(kdf) \o U16(aead) \o << config_id >> \o U16(Len(enc)) \o enc
  \o U16(Len(payload)) \o payload

\* b with the two octets at offset off replaced by the number n
Put16(b, off, n) ==
  [ b EXCEPT ![off + 1] = U16(n)[1], ![off + 2] = U16(n)[2] ]

\* what may reach the server in place of the ClientHello the client sent
StructuralKinds ==
  { "cut0", "cut3", "cut4", "cut6", "enc_max", "enc_over", "no_payload",
    "payload_max", "payload_over", "small_cut" }
UnopenableKinds == { "config_id", "unknown_id", "payload", "small" }
\* ClientHellos of clients that do not offer ECH
NoEchKinds == { "no_ech", "no_ech_small" }
DeliverKinds ==
  { "exact" } \cup StructuralKinds \cup UnopenableKinds \cup NoEchKinds

\* a ClientHello body with a 32-octet session id and one extension
PlainHello ==
  CHBody(OuterRandom, Fill(SSL_MAX_SSL_SESSION_ID_LENGTH, 9), Ciphers,
         ExtBytes(TLSEXT_TYPE_supported_versions, << 2, 3, 4 >>))

Delivered(kind, c) ==
  LET b == SentEchBody(c)
      enc_len == Rd16(b, 5)
  IN IF kind = "exact" THEN Slice(c.pkt, 4, Len(c.pkt) - 4)
     ELSE IF kind = "no_ech" THEN Slice(OuterPkt(c), 4, Len(OuterPkt(c)) - 4)
     ELSE IF kind = "no_ech_small" THEN PlainHello
     ELSE IF kind = "cut0" THEN WithEchBody(c, << >>)
     ELSE IF kind = "cut3" THEN WithEchBody(c, Slice(b, 0, 3))
     ELSE IF kind = "cut4" THEN WithEchBody(c, Slice(b, 0, 4))
     ELSE IF kind = "cut6" THEN WithEchBody(c, Slice(b, 0, 6))
     ELSE IF kind = "enc_max"
     THEN WithEchBody(c, Put16(b, 5, MAX_ECH_ENC_LEN + 1))
     ELSE IF kind = "enc_over" THEN WithEchBody(c, Put16(b, 5, Len(b) - 6))
     ELSE IF kind = "no_payload" THEN WithEchBody(c, Slice(b, 0, 8 + enc_len))
     ELSE IF kind = "payload_max"
     THEN WithEchBody(c, Put16(b, 7 + enc_len, MAX_ECH_PAYLOAD_LEN + 1))
     ELSE IF kind = "payload_over"
     THEN WithEchBody(c, Put16(b, 7 + enc_len, Len(b) - 8 - enc_len))
     ELSE IF kind = "small_cut" THEN SmallHello(<< 0, 1, 0 >>)
     ELSE IF kind = "config_id"
     THEN WithEchBody(c, [ b EXCEPT ![5] = (b[5] % 2) + 1 ])
     ELSE IF kind = "unknown_id" THEN WithEchBody(c, [ b EXCEPT ![5] = 7 ])
     ELSE IF kind = "payload"
     THEN WithEchBody(c, [ b EXCEPT ![Len(b)] = (b[Len(b)] + 1) % 256 ])
     ELSE SmallHello(EchBody(HPKE_KDF_ID_HKDF_SHA256, HPKE_AEAD_ID_AES_GCM_128,
                             1, Fill(32, 238), Fill(20, 85)))

HsInit ==
  /\ \E sc \in Scenarios :
       /\ ctx = LoadStore(EmptyCtx, sc.store)
       /\ conn = SSL_new(LoadStore(EmptyCtx, sc.store), sc.trial)
       /\ cl = [ cfgs |-> sc.cfgs, outer_name |-> sc.outer_name,
                 raws |-> InnerRaws, outer_only |-> sc.outer_only,
                 sid |-> sc.sid, encoded_innerch |-> << >>, pkt |-> << >>,
                 rv |-> 0, tc |-> 0, hpke_suite |-> HPKE_SUITE_DEFAULT ]
  /\ now = 0
  /\ mtime = [ f \in PemFiles |-> 0 ]
  /\ lastop = NoOp
  /\ wire = NoWire
  /\ srv = NoSrv
  /\ hpke_sealed = {}
  /\ status = "none"
  /\ ac = NoAc
  /\ pc = "start"
  /\ alloc = NoHeap

\* the client encodes its inner ClientHello
ClientEncodeInner ==
  /\ pc = "start"
  /\ cl' = [ cl EXCEPT !.encoded_innerch =
               ech_encode_inner(TLS1_2_VERSION, InnerRandom, Ciphers,
                                cl.raws, cl.outer_only) ]
  /\ pc' = "encoded"
  /\ UNCHANGED << storevars, alloc, conn, wire, srv, hpke_sealed, status, ac >>

\* the client has written the outer ClientHello and calls ech_aad_and_encrypt
ClientAadAndEncrypt ==
  /\ pc = "encoded"
  /\ \E r \in { ech_aad_and_encrypt(cl.cfgs, cl.outer_name,
                                      cl.encoded_innerch, Len(cl.sid),
                                      OuterPkt(cl)) } :
        /\ cl' = [ cl EXCEPT !.rv = r.rv, !.tc = r.tc,
                             !.hpke_suite = r.hpke_suite, !.pkt = r.pkt ]
        /\ hpke_sealed' = hpke_sealed \cup r.sealed
        /\ pc' = IF r.rv = 1 THEN "sent" ELSE "failed"
  /\ UNCHANGED << storevars, alloc, conn, wire, srv, status, ac >>

\* a ClientHello reaches the server
Deliver ==
  /\ pc = "sent"
  /\ \E kind \in DeliverKinds :
       wire' = [ kind |-> kind, ch |-> Delivered(kind, cl) ]
  /\ pc' = "received"
  /\ UNCHANGED << storevars, alloc, conn, cl, srv, hpke_sealed, status, ac >>

\* the server, holding keys, calls ech_early_decrypt on the ClientHello
ServerEarlyDecrypt ==
  /\ pc = "received"
  /\ ~conn.isnull
  /\ \E r \in { ech_early_decrypt(conn, hpke_sealed, wire.ch) } :
        /\ conn' = r.conn
        /\ srv' = [ rv |-> r.rv, alert |-> r.alert, tried |-> r.tried ]
  /\ pc' = "decrypted"
  /\ UNCHANGED << storevars, alloc, cl, wire, hpke_sealed, status, ac >>

\* the TLS record and handshake headers in front of a ClientHello body
RecordHello(body) ==
  << 22, 3, 1 >> \o U16(Len(body) + 4) \o << SSL3_MT_CLIENT_HELLO >>
  \o U24(Len(body)) \o body

\* what SSL_CTX_ech_raw_decrypt hands back: the return value, the caller's
\* decrypted_ok, inner_ch, *inner_len and the two names; crash tells that
\* the call read through a NULL pointer and leaked that the SSL was not freed
RawResult(rv, ok, inner_ch, inner_len, inner_sni, outer_sni, crash, leaked) ==
  [ rv |-> rv, decrypted_ok |-> ok, inner_ch |-> inner_ch,
    inner_len |-> inner_len, inner_sni |-> inner_sni,
    outer_sni |-> outer_sni, crash |-> crash, leaked |-> leaked ]

\* the end of SSL_CTX_ech_raw_decrypt after inner_ch was written: look for
\* the inner SNI with ech_get_offsets and declare success
RawInnerDone(r, inner, outer_sni) ==
  With(ech_get_offsets(inner),
  LAMBDA o :
  With(tls_parse_ctos_server_name(
         Slice(inner, o.snioffset + 4, Rd16(inner, o.snioffset + 2))),
  LAMBDA isni :
    IF o.rv # 1
    THEN RawResult(o.rv, r.decrypted_ok, RecordHello(inner), Len(inner) + 9,
                   NameUnset, outer_sni, FALSE, TRUE)
    ELSE IF o.snioffset > 0 /\ isni.rv # 1
    THEN RawResult(0, r.decrypted_ok, RecordHello(inner), Len(inner) + 9,
                   NameUnset, outer_sni, FALSE, FALSE)
    ELSE RawResult(1, 1, RecordHello(inner), Len(inner) + 9,
                   IF o.snioffset > 0 THEN NameSet(isni.hostname)
                   ELSE NameUnset,
                   outer_sni, FALSE, FALSE)))

\* SSL_CTX_ech_raw_decrypt(ctx, outer_ch, outer_len, inner_ch, inner_len,
\* inner_sni, outer_sni, decrypted_ok): c is the context and trial its
\* trial-decryption option, inner_buf_len the caller's *inner_len,
\* nullarg the argument that is NULL if any, decrypted_ok the caller's value
SSL_CTX_ech_raw_decrypt(c, trial, sealed, outer_ch, inner_buf_len, nullarg, decrypted_ok) ==
  LET r0 == RawResult(0, decrypted_ok, << >>, inner_buf_len, NameUnset,
                      NameUnset, FALSE, FALSE)
      outer_len == Len(outer_ch)
      ch == Slice(outer_ch, 9, outer_len - 9)
  IN IF nullarg = "inner_len" THEN [ r0 EXCEPT !.crash = TRUE ]
     ELSE IF nullarg # "none" \/ outer_len = 0 THEN r0
     ELSE IF outer_len < 9 THEN r0
     ELSE IF c.isnull
     THEN IF ech_get_offsets(ch).rv # 1 THEN r0
          ELSE [ r0 EXCEPT !.crash = TRUE ]
     ELSE
     With(ech_early_decrypt(SSL_new(c, trial), sealed, ch),
     LAMBDA e :
       IF e.rv # 1 THEN r0
       ELSE IF e.conn.ech_success = 0
       THEN [ r0 EXCEPT !.rv = 1, !.decrypted_ok = 0,
                        !.outer_sni = e.conn.outer_name ]
       ELSE With(Slice(e.conn.innerch, 4, Len(e.conn.innerch) - 4),
            LAMBDA inner :
              IF Len(inner) + 9 > inner_buf_len
              THEN [ r0 EXCEPT !.outer_sni = e.conn.outer_name ]
              ELSE RawInnerDone(r0, inner, e.conn.outer_name)))

\* the output buffer sizes a split-mode front end may pass
InnerBufSizes == { 64, 1024 }

\* a split-mode front end, holding keys, calls SSL_CTX_ech_raw_decrypt on
\* the record that carries the ClientHello
RawDecrypt ==
  /\ pc = "received"
  /\ \E size \in InnerBufSizes, nullarg \in { "none", "inner_ch", "inner_len" },
        ok \in { 0, 1 } :
        /\ (nullarg # "none") => (size = 64 /\ ok = 0)
        /\ srv' = [ rv |-> -1, alert |-> "none", tried |-> << >>,
                    size |-> size, nullarg |-> nullarg, ok |-> ok,
                    raw |-> SSL_CTX_ech_raw_decrypt(ctx, conn.trial,
                              hpke_sealed, RecordHello(wire.ch), size,
                              nullarg, ok) ]
  /\ pc' = "raw"
  /\ UNCHANGED << storevars, alloc, conn, cl, wire, hpke_sealed, status, ac >>

\* the length ech_swaperoo takes the ClientHello at the start of the
\* transcript buffer to have
OuterChLen(curr_buf) ==
  1 + At(curr_buf, 1) * 256 * 256 + At(curr_buf, 2) * 256 + At(curr_buf, 3)

\* the buffer ech_swaperoo hands to ssl3_finish_mac: [ok, new_buf]
NewTranscript(curr_buf, innerch) ==
  LET curr_buflen == Len(curr_buf)
      outer_chlen == OuterChLen(curr_buf)
      other_octets == curr_buflen - outer_chlen
  IN IF curr_buflen > 0 /\ At(curr_buf, 0) = SSL3_MT_CLIENT_HELLO
     THEN IF outer_chlen > curr_buflen
          THEN [ ok |-> FALSE, new_buf |-> << >> ]
          ELSE IF other_octets > 0
          THEN [ ok |-> TRUE,
                 new_buf |-> innerch
                             \o Slice(curr_buf, outer_chlen, other_octets) ]
          ELSE [ ok |-> TRUE, new_buf |-> innerch ]
     ELSE [ ok |-> TRUE, new_buf |-> innerch ]

\* ech_swaperoo(s): s is the outer connection, inner_s tells whether it has
\* an inner connection, handshake_buffer is the transcript of the outer,
\* sn_ok whether final_server_name returns 1 and cb what the ECH callback
\* returns ("none" when there is no callback).  The transcript of the
\* inner connection before the call is empty.
ech_swaperoo(s, inner_s, handshake_buffer, sn_ok, cb) ==
  LET ret(s2, rv, alert, buf) ==
        [ s |-> s2, rv |-> rv, alert |-> alert, handshake_buffer |-> buf ]
      t == NewTranscript(handshake_buffer, s.innerch)
      won == [ s EXCEPT !.ech_attempted = 1, !.ech_success = 1,
                        !.ech_done = 1, !.ech_grease = ECH_NOT_GREASE ]
  IN IF s.isnull \/ ~inner_s THEN ret(s, 0, "none", handshake_buffer)
     ELSE IF ~t.ok THEN ret(s, 0, "internal_error", << >>)
     ELSE IF ~sn_ok
     THEN ret([ won EXCEPT !.ech_success = 0 ], 0, "none", t.new_buf)
     ELSE IF cb = "refused" THEN ret(won, 0, "none", t.new_buf)
     ELSE ret(won, 1, "none", t.new_buf)

\* a handshake message that may follow the ClientHello in the transcript
FollowingMsg == HsMsg(2, << 3, 3, 77, 77 >>)

\* the transcript buffers of the outer connection when ech_swaperoo runs
OldBuffers(ch) ==
  { HsMsg(SSL3_MT_CLIENT_HELLO, ch) \o rest : rest \in { << >>, FollowingMsg } }
  \cup { << >>, FollowingMsg, Slice(HsMsg(SSL3_MT_CLIENT_HELLO, ch), 0, 4) }

\* the server, having decrypted the inner ClientHello, swaps inner and outer
Swaperoo ==
  /\ pc = "decrypted"
  /\ srv.rv = 1
  /\ conn.ech_success = 1
  /\ \E buf \in OldBuffers(wire.ch), inner_s \in BOOLEAN, sn_ok \in BOOLEAN,
        cb \in { "none", "accepted", "refused" } :
       \E r \in { ech_swaperoo(conn, inner_s, buf, sn_ok, cb) } :
         /\ conn' = r.s
         /\ srv' = [ rv |-> r.rv, alert |-> r.alert, tried |-> srv.tried,
                     old |-> buf, handshake_buffer |-> r.handshake_buffer ]
  /\ pc' = "swapped"
  /\ UNCHANGED << storevars, alloc, cl, wire, hpke_sealed, status, ac >>

\* the handshake went on and the application asks for the ECH status
GetStatus ==
  /\ pc = "decrypted"
  /\ srv.rv = 1
  /\ status' = SSL_ech_get_status(conn)
  /\ pc' = "done"
  /\ UNCHANGED << storevars, alloc, conn, cl, wire, srv, hpke_sealed, ac >>

HsNext ==
  \/ ClientEncodeInner
  \/ ClientAadAndEncrypt
  \/ Deliver
  \/ ServerEarlyDecrypt
  \/ RawDecrypt
  \/ Swaperoo
  \/ GetStatus

HsSpec == HsInit /\ [][HsNext]_vars

(***************************************************************************)
(* Key store: the calls a server application makes over time               *)
(***************************************************************************)

\* the ClientHello of a client that was given the published config of key k
HonestHello(k) ==
  LET c == [ cfgs |-> << ServerConfig(k) >>, outer_name |-> NameUnset,
             raws |-> InnerRaws, sid |-> Fill(8, 9) ]
  IN With(ech_aad_and_encrypt(c.cfgs, c.outer_name,
            ech_encode_inner(TLS1_2_VERSION, InnerRandom, Ciphers,
                             InnerRaws, << >>),
            Len(c.sid), OuterPkt(c)),
     LAMBDA r : [ ch |-> Slice(r.pkt, 4, Len(r.pkt) - 4),
                  sealed |-> r.sealed ])

\* the outcomes of a handshake on a connection made from the store c, for
\* the ClientHello of HonestHello(k): whether ECH decryption succeeded and
\* the PEM files of the keys HPKE open was tried with.  A store that was
\* emptied key by key keeps a non-NULL array of no elements: the connection
\* then has a zero-size copy, or none, and reads past it.
HandshakeOutcomes(c, k) ==
  IF c.isnull THEN { [ outcome |-> "no_ech", success |-> 0, used |-> << >> ] }
  ELSE IF c.nechs = 0
  THEN { [ outcome |-> o, success |-> 0, used |-> << >> ] :
           o \in { "no_ech", "error", "crash" } }
  ELSE With(HonestHello(k),
       LAMBDA h :
       With(ech_early_decrypt(SSL_new(c, FALSE), h.sealed, h.ch),
       LAMBDA r :
         { [ outcome |-> IF r.rv = 1 THEN "continue" ELSE "error",
             success |-> r.conn.ech_success,
             used |-> [ i \in 1..Len(r.tried) |->
                          c.ech[r.tried[i] + 1].pemfname ] ] }))

StoreInit ==
  /\ ctx = EmptyCtx
  /\ now = 0
  /\ mtime = [ f \in PemFiles |-> 0 ]
  /\ lastop = NoOp
  /\ conn = SSL_new(EmptyCtx, FALSE)
  /\ HsIdle
  /\ ac = NoAc
  /\ pc = "store"
  /\ alloc = NoHeap

\* a second of wall-clock time passes
Tick ==
  /\ now < MaxTime
  /\ now' = now + 1
  /\ lastop' = NoOp
  /\ UNCHANGED << ctx, mtime, alloc, conn, hsvars, ac, pc >>

\* the operator rewrites the PEM file of the first key
TouchFile ==
  \E f \in { "k1.pem" } :
    /\ mtime[f] < now
    /\ mtime' = [ mtime EXCEPT ![f] = now ]
    /\ lastop' = NoOp
    /\ UNCHANGED << ctx, now, alloc, conn, hsvars, ac, pc >>

ServerEnable ==
  \E f \in PemFiles \cup { TwoConfigFile } :
    /\ ech_check_filenames(ctx, f, mtime).stat = ECH_KEYPAIR_NEW
         => ctx.nechs < MaxKeys
    /\ ctx' = SSL_CTX_ech_server_enable(ctx, f, mtime, now)
    /\ lastop' = [ op |-> "enable", file |-> f, age |-> 0, now |-> now,
                   before |-> Keys(ctx),
                   rv |-> ServerEnableRv(ctx, f, mtime, now), hs |-> NoHs ]
    /\ UNCHANGED << now, mtime, alloc, conn, hsvars, ac, pc >>

\* the application hands over a key pair in memory
ServerEnableBuffer ==
  \E b \in PemBuffers :
    /\ ctx.nechs < MaxKeys
    /\ \E r \in { SSL_CTX_ech_server_enable_buffer(ctx, b, now) } :
         /\ ctx' = r.ctx
         /\ lastop' = [ op |-> "enable_buffer", file |-> b, age |-> 0,
                        now |-> now, before |-> Keys(ctx), rv |-> r.rv,
                        hs |-> NoHs ]
    /\ UNCHANGED << now, mtime, alloc, conn, hsvars, ac, pc >>

\* what OPENSSL_DIR_read may yield for the key directory
DirListings ==
  { << "k2.pem", "README", "k1.pem" >>, << "a.b", TwoConfigFile, "k3.pem" >> }

\* the application loads the key directory
ReadPemDir ==
  \E names \in DirListings :
    \E r \in { SSL_CTX_ech_readpemdir(ctx, names, mtime, now) } :
      /\ r.ctx.nechs <= MaxKeys
      /\ ctx' = r.ctx
      /\ lastop' = [ op |-> "readpemdir", file |-> "", age |-> 0,
                     now |-> now, before |-> Keys(ctx),
                     rv |-> r.number_loaded, hs |-> NoHs ]
      /\ UNCHANGED << now, mtime, alloc, conn, hsvars, ac, pc >>

FlushKeys ==
  \E age \in (-1)..MaxAge :
    /\ ctx' = SSL_CTX_ech_server_flush_keys(ctx, age, now)
    /\ lastop' = [ op |-> "flush", file |-> "", age |-> age, now |-> now,
                   before |-> Keys(ctx), rv |-> 1, hs |-> NoHs ]
    /\ UNCHANGED << now, mtime, alloc, conn, hsvars, ac, pc >>

KeyStatus ==
  /\ lastop' = [ op |-> "status", file |-> "", age |-> 0, now |-> now,
                 before |-> Keys(ctx),
                 rv |-> SSL_CTX_ech_server_key_status(ctx), hs |-> NoHs ]
  /\ UNCHANGED << ctx, now, mtime, alloc, conn, hsvars, ac, pc >>

\* a client that holds the config of one of the keys connects
Handshake ==
  \E k \in KeyIds :
    \E o \in HandshakeOutcomes(ctx, k) :
      /\ lastop' = [ op |-> "handshake", file |-> "", age |-> 0,
                     now |-> now, before |-> Keys(ctx), rv |-> k, hs |-> o ]
      /\ UNCHANGED << ctx, now, mtime, alloc, conn, hsvars, ac, pc >>

StoreNext ==
  \/ Tick
  \/ TouchFile
  \/ ServerEnable
  \/ ServerEnableBuffer
  \/ ReadPemDir
  \/ FlushKeys
  \/ KeyStatus
  \/ Handshake

StoreSpec == StoreInit /\ [][StoreNext]_vars

(***************************************************************************)
(* Accept confirmation                                                     *)
(***************************************************************************)

\* "ech accept confirmation"
ECH_ACCEPT_CONFIRM_STRING ==
  << 101, 99, 104, 32, 97, 99, 99, 101, 112, 116, 32, 99, 111, 110, 102,
     105, 114, 109, 97, 116, 105, 111, 110 >>

\* an offset four octets short of the confirmation octets
ShOffsetShort == 6 + 20

\* offset of the last 8 octets of ServerHello.random in the ServerHello
\* handshake message
ShOffset == 6 + 24

RECURSIVE WeighedSum(_, _, _, _)
\* the sum of buf[j] * (j + w) over lo <= j <= hi, modulo 2^16
WeighedSum(buf, lo, hi, w) ==
  IF lo > hi THEN 0
  ELSE IF lo = hi THEN (buf[lo] * (lo + w)) % 65536
  ELSE LET mid == (lo + hi) \div 2
       IN (WeighedSum(buf, lo, mid, w) + WeighedSum(buf, mid + 1, hi, w))
          % 65536

\* EVP_Digest with md over buf: a digest of EVP_MD_size(md) octets
Digest(md, buf) ==
  [ i \in 1..(IF md = "SHA384" THEN 48 ELSE 32) |->
      (WeighedSum(buf, 1, Len(buf), i) + Len(buf) + i) % 256 ]

\* tls13_hkdf_expand(s, md, secret, label, data, out, outlen)
tls13_hkdf_expand(md, secret, label, data, outlen) ==
  [ i \in 1..outlen |->
      (WeighedSum(secret \o label \o data, 1,
                  Len(secret) + Len(label) + Len(data), i)
       + (IF md = "SHA384" THEN 7 ELSE 0)) % 256 ]

\* ssl_md of the cipher named by two octets; "NULL" when there is no such
\* cipher
CipherMd(chars) ==
  IF chars = << 19, 1 >> THEN "SHA256"
  ELSE IF chars = << 19, 2 >> THEN "SHA384"
  ELSE "NULL"

\* the transcript buffer tbuf of ech_calc_accept_confirm
AcceptTranscript(server, innerch, shbuf) ==
  LET chlen == Len(innerch)
      shlen == Len(shbuf)
      t1 == IF server
            THEN LET t0 == innerch \o shbuf
                 IN [ t0 EXCEPT ![chlen + 2] = ((shlen - 4) \div 65536) % 256,
                                ![chlen + 3] = ((shlen - 4) \div 256) % 256,
                                ![chlen + 4] = (shlen - 4) % 256 ]
            ELSE innerch \o << 2, (shlen \div 65536) % 256,
                               (shlen \div 256) % 256, shlen % 256 >>
                 \o shbuf
  IN [ i \in 1..Len(t1) |->
         IF i > chlen + ShOffset /\ i <= chlen + ShOffset + 8
         THEN 0 ELSE t1[i] ]

\* ech_calc_accept_confirm(s, acbuf, shbuf, shlen): [rv, md, tbuf, acbuf];
\* handshake_md is ssl_handshake_md(s), "NULL" when it is not known yet
ech_calc_accept_confirm(server, innerch, handshake_md, handshake_secret, shbuf) ==
  LET tbuf == AcceptTranscript(server, innerch, shbuf)
      chlen == Len(innerch)
      cipheroff == chlen + ShOffset + 8 + 1 + 32
      md == IF handshake_md # "NULL" THEN handshake_md
            ELSE IF cipheroff + 2 > Len(tbuf) THEN "NULL"
            ELSE CipherMd(Slice(tbuf, cipheroff, 2))
      hashval == Digest(md, tbuf)
      hoval == tls13_hkdf_expand(md, handshake_secret,
                                 ECH_ACCEPT_CONFIRM_STRING, hashval,
                                 Len(hashval))
  IN IF md = "NULL"
     THEN [ rv |-> -1, md |-> md, tbuf |-> tbuf, acbuf |-> << >> ]
     ELSE [ rv |-> 1, md |-> md, tbuf |-> tbuf, acbuf |-> Slice(hoval, 0, 8) ]

\* a ServerHello body: version, random, session id echo, cipher,
\* compression, extensions
SHBody(random, sid, cipher, exts) ==
  U16(TLS1_2_VERSION) \o random \o << Len(sid) >> \o sid \o cipher
  \o << 0 >> \o U16(Len(exts)) \o exts

\* body with the last 8 octets of ServerHello.random replaced by acbuf
PutConfirm(body, acbuf) ==
  [ i \in 1..Len(body) |->
      IF i > 2 + 24 /\ i <= 2 + 32 THEN acbuf[i - 26] ELSE body[i] ]

AcInit ==
  /\ \E sid \in { Fill(8, 9), Fill(SSL_MAX_SSL_SESSION_ID_LENGTH, 9) },
        r \in { 80, 81 }, tail \in { 0, 90 }, hdr \in { 0, 255 },
        cipher \in { << 19, 1 >>, << 19, 2 >> }, secret \in { 1, 2 },
        known \in BOOLEAN :
       ac = [ step |-> "start",
              innerch |-> InnerHello(InnerRaws, sid),
              body |-> SHBody(Fill(24, r) \o Fill(8, tail), sid, cipher,
                              ExtBytes(TLSEXT_TYPE_supported_versions,
                                       << 3, 4 >>)),
              hdr |-> << hdr, hdr, hdr >>,
              secret |-> Fill(32, secret),
              srv_md |-> CipherMd(cipher),
              cli_md |-> IF known THEN CipherMd(cipher) ELSE "NULL",
              srv |-> [ rv |-> 0 ], sent |-> << >>, cli |-> [ rv |-> 0 ] ]
  /\ ctx = EmptyCtx
  /\ now = 0
  /\ mtime = [ f \in PemFiles |-> 0 ]
  /\ lastop = NoOp
  /\ conn = SSL_new(EmptyCtx, FALSE)
  /\ HsIdle
  /\ pc = "accept"
  /\ alloc = NoHeap

\* the server, writing its ServerHello, calculates the confirmation over
\* the message with its header, whose length octets are not yet right
ServerCalcAcceptConfirm ==
  /\ ac.step = "start"
  /\ ac' = [ ac EXCEPT
               !.srv = ech_calc_accept_confirm(TRUE, ac.innerch, ac.srv_md,
                         ac.secret, << SSL3_MT_SERVER_HELLO >> \o ac.hdr
                                    \o ac.body),
               !.step = "server_done" ]
  /\ UNCHANGED << storevars, alloc, conn, hsvars, pc >>

\* the server puts the confirmation into ServerHello.random and sends
ServerSendHello ==
  /\ ac.step = "server_done"
  /\ ac.srv.rv = 1
  /\ ac' = [ ac EXCEPT
               !.sent = HsMsg(SSL3_MT_SERVER_HELLO,
                              PutConfirm(ac.body, ac.srv.acbuf)),
               !.step = "sent" ]
  /\ UNCHANGED << storevars, alloc, conn, hsvars, pc >>

\* the client calculates the confirmation over the body it received
ClientCalcAcceptConfirm ==
  /\ ac.step = "sent"
  /\ ac' = [ ac EXCEPT
               !.cli = ech_calc_accept_confirm(FALSE, ac.innerch, ac.cli_md,
                         ac.secret, Slice(ac.sent, 4, Len(ac.sent) - 4)),
               !.step = "client_done" ]
  /\ UNCHANGED << storevars, alloc, conn, hsvars, pc >>

AcNext ==
  \/ ServerCalcAcceptConfirm
  \/ ServerSendHello
  \/ ClientCalcAcceptConfirm

AcSpec == AcInit /\ [][AcNext]_vars

(***************************************************************************)
(* ECHConfigs decoder                                                      *)
(***************************************************************************)

ECH_DRAFT_09_VERSION == 65033
ECH_MIN_ECHCONFIG_LEN == 10
ECH_MAX_ECHCONFIG_LEN == 1500
ECH_CIPHER_LEN == 4
TLSEXT_MAXLEN_host_name == 255

\* a PACKET over the octets curr..end-1 of buf
PACKET_buf_init(buf, len) == [ buf |-> buf, curr |-> 0, end |-> len ]

PACKET_remaining(pkt) == pkt.end - pkt.curr

PACKET_get_net_2(pkt) ==
  IF PACKET_remaining(pkt) < 2 THEN [ ok |-> FALSE, val |-> 0, pkt |-> pkt ]
  ELSE [ ok |-> TRUE, val |-> Rd16(pkt.buf, pkt.curr),
         pkt |-> [ pkt EXCEPT !.curr = @ + 2 ] ]

PACKET_copy_bytes(pkt, n) ==
  IF PACKET_remaining(pkt) < n THEN [ ok |-> FALSE, data |-> << >>, pkt |-> pkt ]
  ELSE [ ok |-> TRUE, data |-> Slice(pkt.buf, pkt.curr, n),
         pkt |-> [ pkt EXCEPT !.curr = @ + n ] ]

\* a sub-packet of the octets a two-octet length announces
PACKET_get_length_prefixed_2(pkt) ==
  IF PACKET_remaining(pkt) < 2
       \/ PACKET_remaining(pkt) - 2 < Rd16(pkt.buf, pkt.curr)
  THEN [ ok |-> FALSE, sub |-> pkt, pkt |-> pkt ]
  ELSE [ ok |-> TRUE,
         sub |-> [ buf |-> pkt.buf, curr |-> pkt.curr + 2,
                   end |-> pkt.curr + 2 + Rd16(pkt.buf, pkt.curr) ],
         pkt |-> [ pkt EXCEPT !.curr = @ + 2 + Rd16(pkt.buf, pkt.curr) ] ]

\* the octets a sub-packet still holds
PacketData(pkt) == Slice(pkt.buf, pkt.curr, PACKET_remaining(pkt))

\* "goto err"
DecErr == [ ok |-> FALSE ]

\* the test (ech_content_length-2) > remaining: the subtraction is unsigned,
\* so a length below 2 wraps to a value above any remaining
ContentLengthCheck(ech_content_length, remaining) ==
  IF ech_content_length < 2 THEN TRUE ELSE ech_content_length - 2 > remaining

RECURSIVE CopySuites(_, _)
\* while (PACKET_copy_bytes(&cipher_suites, cipher, ECH_CIPHER_LEN))
CopySuites(cipher_suites, acc) ==
  IF PACKET_remaining(cipher_suites) < ECH_CIPHER_LEN
  THEN [ pkt |-> cipher_suites, suites |-> acc ]
  ELSE CopySuites([ cipher_suites EXCEPT !.curr = @ + ECH_CIPHER_LEN ],
                  Append(acc, Slice(cipher_suites.buf, cipher_suites.curr,
                                    ECH_CIPHER_LEN)))

\* a decoder that does not look at what the copy loop left
SuitesLeftOverIgnored(cipher_suites) == FALSE

\* the octets the copy loop left in the list of suites fail the decode
SuitesLeftOver(cipher_suites) == PACKET_remaining(cipher_suites) > 0

\* the list of cipher suites of one ECHConfig
ParseSuites(pkt) ==
  With(PACKET_get_length_prefixed_2(pkt), LAMBDA g :
    IF ~g.ok THEN DecErr
    ELSE With(PACKET_remaining(g.sub), LAMBDA suiteoctets :
      IF suiteoctets <= 0 \/ (suiteoctets % 1) # 0 THEN DecErr
      \* OPENSSL_malloc of no octets yields NULL
      ELSE IF (suiteoctets \div ECH_CIPHER_LEN) * ECH_CIPHER_LEN = 0 THEN DecErr
      ELSE With(CopySuites(g.sub, << >>), LAMBDA c :
        IF SuitesLeftOver(c.pkt) THEN DecErr
        ELSE [ ok |-> TRUE, pkt |-> g.pkt, suites |-> c.suites,
               nsuites |-> suiteoctets \div ECH_CIPHER_LEN ])))

\* the public_name of one ECHConfig
ParsePublicName(pkt) ==
  With(PACKET_get_length_prefixed_2(pkt), LAMBDA g :
    IF ~g.ok THEN DecErr
    ELSE IF PACKET_remaining(g.sub) <= 1
              \/ PACKET_remaining(g.sub) > TLSEXT_MAXLEN_host_name THEN DecErr
    ELSE [ ok |-> TRUE, pkt |-> g.pkt, name |-> PacketData(g.sub) ])

\* the HPKE public value of one ECHConfig; OPENSSL_malloc of no octets
\* yields NULL
ParsePub(pkt) ==
  With(PACKET_get_length_prefixed_2(pkt), LAMBDA g :
    IF ~g.ok THEN DecErr
    ELSE IF PACKET_remaining(g.sub) = 0 THEN DecErr
    ELSE [ ok |-> TRUE, pkt |-> g.pkt, pub |-> PacketData(g.sub) ])

RECURSIVE ExtsLoop(_, _)
\* while (PACKET_remaining(&exts) > 0): type, length, value
ExtsLoop(exts, acc) ==
  IF PACKET_remaining(exts) <= 0 THEN [ ok |-> TRUE, exts |-> acc ]
  ELSE With(PACKET_get_net_2(exts), LAMBDA t :
    IF ~t.ok THEN DecErr
    ELSE With(PACKET_get_net_2(t.pkt), LAMBDA l :
      IF ~l.ok THEN DecErr
      ELSE With(PACKET_copy_bytes(l.pkt, l.val), LAMBDA v :
        IF ~v.ok THEN DecErr
        ELSE ExtsLoop(v.pkt, Append(acc, [ type |-> t.val, len |-> l.val,
                                           val |-> v.data ])))))

\* the extensions of one ECHConfig
ParseExts(pkt) ==
  With(PACKET_get_length_prefixed_2(pkt), LAMBDA g :
    IF ~g.ok THEN DecErr
    ELSE With(ExtsLoop(g.sub, << >>), LAMBDA e :
      IF ~e.ok THEN DecErr
      ELSE [ ok |-> TRUE, pkt |-> g.pkt, exts |-> e.exts ]))

\* the fields of *ec after memset and the two assignments of the window
NewConfig(version, encoding_start, encoding_length) ==
  [ version |-> version, config_id |-> 0, kem_id |-> 0, pub |-> << >>,
    ciphersuites |-> << >>, nsuites |-> 0, maximum_name_length |-> 0,
    public_name |-> << >>, exts |-> << >>,
    encoding_start |-> encoding_start, encoding_length |-> encoding_length ]

\* the contents of a draft-10 ECHConfig: config_id, kem_id, public key,
\* cipher suites, maximum_name_length, public_name, extensions
ParseDraft10(pkt, ec) ==
  With(PACKET_copy_bytes(pkt, 1), LAMBDA id :
    IF ~id.ok THEN DecErr
    ELSE With(PACKET_get_net_2(id.pkt), LAMBDA kem :
      IF ~kem.ok THEN DecErr
      ELSE With(ParsePub(kem.pkt), LAMBDA pub :
        IF ~pub.ok THEN DecErr
        ELSE With(ParseSuites(pub.pkt), LAMBDA cs :
          IF ~cs.ok THEN DecErr
          ELSE With(PACKET_get_net_2(cs.pkt), LAMBDA mnl :
            IF ~mnl.ok THEN DecErr
            ELSE With(ParsePublicName(mnl.pkt), LAMBDA pn :
              IF ~pn.ok THEN DecErr
              ELSE With(ParseExts(pn.pkt), LAMBDA ex :
                IF ~ex.ok THEN DecErr
                ELSE [ ok |-> TRUE, pkt |-> ex.pkt,
                       ec |-> [ ec EXCEPT
                                  !.config_id = id.data[1],
                                  !.kem_id = kem.val,
                                  !.pub = pub.pub,
                                  !.ciphersuites = cs.suites,
                                  !.nsuites = cs.nsuites,
                                  !.maximum_name_length = mnl.val,
                                  !.public_name = pn.name,
                                  !.exts = ex.exts ] ])))))))

\* the contents of a draft-09 ECHConfig: public_name, public key, kem_id,
\* cipher suites, maximum_name_length, extensions
ParseDraft09(pkt, ec) ==
  With(ParsePublicName(pkt), LAMBDA pn :
    IF ~pn.ok THEN DecErr
    ELSE With(ParsePub(pn.pkt), LAMBDA pub :
      IF ~pub.ok THEN DecErr
      ELSE With(PACKET_get_net_2(pub.pkt), LAMBDA kem :
        IF ~kem.ok THEN DecErr
        ELSE With(ParseSuites(kem.pkt), LAMBDA cs :
          IF ~cs.ok THEN DecErr
          ELSE With(PACKET_get_net_2(cs.pkt), LAMBDA mnl :
            IF ~mnl.ok THEN DecErr
            ELSE With(ParseExts(mnl.pkt), LAMBDA ex :
              IF ~ex.ok THEN DecErr
              ELSE [ ok |-> TRUE, pkt |-> ex.pkt,
                     ec |-> [ ec EXCEPT
                                !.kem_id = kem.val,
                                !.pub = pub.pub,
                                !.ciphersuites = cs.suites,
                                !.nsuites = cs.nsuites,
                                !.maximum_name_length = mnl.val,
                                !.public_name = pn.name,
                                !.exts = ex.exts ] ]))))))

\* the length of the window recorded for each ECHConfig of a list
EncodingLength(olen, ech_content_length) == olen

\* a config of a version that is not supported: its contents are skipped
SkipUnknown(pkt, ech_content_length) ==
  IF ech_content_length = 0 THEN DecErr
  ELSE With(PACKET_copy_bytes(pkt, ech_content_length), LAMBDA foo :
         IF ~foo.ok THEN DecErr ELSE [ ok |-> TRUE, pkt |-> foo.pkt ])

RECURSIVE DecodeConfigLoop(_, _, _, _, _)
\* while (remaining>not_to_consume): one ECHConfig a turn; te holds the
\* rind configs decoded so far
DecodeConfigLoop(pkt, olen, not_to_consume, remaining, te) ==
  IF ~(remaining > not_to_consume) THEN [ ok |-> TRUE, pkt |-> pkt, te |-> te ]
  ELSE With(PACKET_get_net_2(pkt), LAMBDA ver :
    IF ~ver.ok THEN DecErr
    ELSE With(PACKET_get_net_2(ver.pkt), LAMBDA len :
      IF ~len.ok THEN DecErr
      ELSE IF ContentLengthCheck(len.val, PACKET_remaining(len.pkt)) THEN DecErr
      ELSE IF ver.val \notin { ECH_DRAFT_09_VERSION, ECH_DRAFT_10_VERSION }
      THEN With(SkipUnknown(len.pkt, len.val), LAMBDA s :
             IF ~s.ok THEN DecErr
             ELSE DecodeConfigLoop(s.pkt, olen, not_to_consume,
                             PACKET_remaining(s.pkt), te))
      ELSE With(IF ver.val = ECH_DRAFT_10_VERSION
                THEN ParseDraft10(len.pkt,
                       NewConfig(ver.val, pkt.curr,
                                 EncodingLength(olen, len.val)))
                ELSE ParseDraft09(len.pkt,
                       NewConfig(ver.val, pkt.curr,
                                 EncodingLength(olen, len.val))),
             LAMBDA c :
               IF ~c.ok THEN DecErr
               ELSE DecodeConfigLoop(c.pkt, olen, not_to_consume,
                               PACKET_remaining(c.pkt), Append(te, c.ec)))))

\* the octets of the input that the config loop leaves alone
NotToConsume(binblen, olen) == binblen - olen

\* ECHConfigs_from_binary(binbuf, binblen, &leftover): NULL (ok = FALSE) or
\* the ECHConfigs record and the number of octets left over
ECHConfigs_from_binary(binbuf, binblen) ==
  IF binblen = 0 THEN DecErr
  ELSE IF binblen < ECH_MIN_ECHCONFIG_LEN THEN DecErr
  ELSE IF binblen >= ECH_MAX_ECHCONFIG_LEN THEN DecErr
  ELSE With(PACKET_get_net_2(PACKET_buf_init(binbuf, binblen)), LAMBDA o :
    IF ~o.ok THEN DecErr
    ELSE IF o.val < ECH_MIN_ECHCONFIG_LEN \/ o.val > binblen - 2 THEN DecErr
    ELSE IF binblen <= o.val THEN DecErr
    ELSE With(DecodeConfigLoop(o.pkt, o.val, NotToConsume(binblen, o.val),
                         PACKET_remaining(o.pkt), << >>), LAMBDA l :
      IF ~l.ok THEN DecErr
      ELSE IF PACKET_remaining(l.pkt) > binblen THEN DecErr
      ELSE [ ok |-> TRUE, nrecs |-> Len(l.te), recs |-> l.te,
             encoded_len |-> binblen, encoded |-> binbuf,
             leftover |-> PACKET_remaining(l.pkt) ]))


\* the formats of an encoded value (ech.h)
ECH_FMT_GUESS == "GUESS"
ECH_FMT_BIN == "BIN"
ECH_FMT_B64TXT == "B64TXT"
ECH_FMT_ASCIIHEX == "ASCIIHEX"
ECH_FMT_HTTPSSVC == "HTTPSSVC"
ECH_MAX_RRVALUE_LEN == 2000

\* "0123456789ABCDEFabcdef;"
AH_alphabet == (48..57) \cup (65..70) \cup (97..102) \cup { 59 }
\* "A..Za..z0..9+/=;"
B64_alphabet == (65..90) \cup (97..122) \cup (48..57) \cup { 43, 47, 61, 59 }
\* "ech="
httpssvc_telltale == << 101, 99, 104, 61 >>

\* strspn: the octets from offset i on that are in the alphabet, up to the
\* first that is not; the terminating NUL is in no alphabet
StrSpnFrom(s, i, alphabet) ==
  With({ n \in 0..(IF Len(s) > i THEN Len(s) - i ELSE 0) :
           At(s, i + n) \notin alphabet }, LAMBDA stops :
    CHOOSE n \in stops : \A m \in stops : n <= m)

strspn(s, alphabet) == StrSpnFrom(s, 0, alphabet)

\* strlen: the octets before the first NUL
strlen(s) == StrSpnFrom(s, 0, 1..255)

\* strstr: the offset of the first occurrence of needle in the string that
\* ends at the first NUL, or -1 for NULL
strstr(s, needle) ==
  With({ i \in 0..(strlen(s) - Len(needle)) :
           Slice(s, i, Len(needle)) = needle }, LAMBDA hits :
    IF hits = {} THEN -1 ELSE CHOOSE i \in hits : \A j \in hits : i <= j)

\* ech_guess_fmt(eklen, rrval, &guessedfmt): rrval is the memory from the
\* first octet of the value on
ech_guess_fmt(eklen, rrval) ==
  IF eklen <= 0 THEN [ rv |-> 0, guessedfmt |-> ECH_FMT_GUESS ]
  ELSE IF strstr(rrval, httpssvc_telltale) # -1
  THEN [ rv |-> 1, guessedfmt |-> ECH_FMT_HTTPSSVC ]
  ELSE IF eklen <= strspn(rrval, AH_alphabet)
  THEN [ rv |-> 1, guessedfmt |-> ECH_FMT_ASCIIHEX ]
  ELSE IF eklen <= strspn(rrval, B64_alphabet)
  THEN [ rv |-> 1, guessedfmt |-> ECH_FMT_B64TXT ]
  ELSE [ rv |-> 1, guessedfmt |-> ECH_FMT_BIN ]


\* the base64 digits in the order of their values
B64Digits ==
  [ i \in 1..64 |-> IF i <= 26 THEN 64 + i
                    ELSE IF i <= 52 THEN 70 + i
                    ELSE IF i <= 62 THEN i - 5
                    ELSE IF i = 63 THEN 43 ELSE 47 ]

\* the value of a base64 digit; '=' counts as 0, any other octet is -1
B64Val(c) ==
  IF c = 61 THEN 0
  ELSE IF \E i \in 1..64 : B64Digits[i] = c
  THEN (CHOOSE i \in 1..64 : B64Digits[i] = c) - 1
  ELSE -1

\* the 24 bits that the four digits of group g (0, 1, ...) stand for
GroupValue(in, g) ==
  B64Val(in[4 * g + 1]) * 262144 + B64Val(in[4 * g + 2]) * 4096
    + B64Val(in[4 * g + 3]) * 64 + B64Val(in[4 * g + 4])

\* EVP_DecodeBlock(out, in, n): the octets n base64 digits stand for, three
\* for every four digits, padding decoded as zero bits; -1 unless n is a
\* multiple of 4 and every octet a digit
EVP_DecodeBlock(in) ==
  IF Len(in) % 4 # 0 THEN [ rv |-> -1, data |-> << >> ]
  ELSE IF \E j \in 1..Len(in) : B64Val(in[j]) = -1
  THEN [ rv |-> -1, data |-> << >> ]
  ELSE [ rv |-> 3 * (Len(in) \div 4),
         data |-> [ j \in 1..(3 * (Len(in) \div 4)) |->
                      U24(GroupValue(in, (j - 1) \div 3))[((j - 1) % 3) + 1] ] ]

\* strcspn(inp, ";")
FragLen(in, off) == StrSpnFrom(in, off, (1..255) \ { 59 })

\* the '=' that end a fragment, counted until a third one is seen
PadCount(frag) ==
  IF Len(frag) >= 1 /\ frag[Len(frag)] = 61
  THEN IF Len(frag) >= 2 /\ frag[Len(frag) - 1] = 61
       THEN IF Len(frag) >= 3 /\ frag[Len(frag) - 2] = 61 THEN 3 ELSE 2
       ELSE 1
  ELSE 0

RECURSIVE Base64Frags(_, _, _, _)
\* while (overallfraglen<inlen): decode the fragment up to the next ';'
Base64Frags(in, inlen, overallfraglen, out) ==
  IF ~(overallfraglen < inlen) THEN [ rv |-> Len(out), out |-> out ]
  ELSE With(Slice(in, overallfraglen, FragLen(in, overallfraglen)),
         LAMBDA frag :
           With(EVP_DecodeBlock(frag), LAMBDA d :
             IF d.rv < 0 THEN [ rv |-> -1, out |-> << >> ]
             ELSE IF PadCount(frag) > 2 THEN [ rv |-> -1, out |-> << >> ]
             ELSE Base64Frags(in, inlen, overallfraglen + Len(frag) + 1,
                    out \o SubSeq(d.data, 1, d.rv - PadCount(frag)))))

\* ech_base64_decode(in, &out): in is the memory from the first digit on
ech_base64_decode(in) ==
  IF strlen(in) = 0 THEN [ rv |-> 0, out |-> << >> ]
  ELSE Base64Frags(in, strlen(in), 0, << >>)

\* the value of a hexadecimal digit, -1 for any other octet
HPKE_A2B(c) ==
  IF c \in 48..57 THEN c - 48
  ELSE IF c \in 65..70 THEN c - 55
  ELSE IF c \in 97..102 THEN c - 87
  ELSE -1

\* hpke_ah_decode(ahlen, ah, &blen, &buf): two digits an octet
hpke_ah_decode(ahlen, ah) ==
  IF ahlen <= 0 \/ ahlen % 2 # 0 THEN [ rv |-> 0, buf |-> << >> ]
  ELSE IF \E i \in 0..(ahlen - 1) : HPKE_A2B(At(ah, i)) = -1
  THEN [ rv |-> 0, buf |-> << >> ]
  ELSE [ rv |-> 1,
         buf |-> [ i \in 1..(ahlen \div 2) |->
                     HPKE_A2B(At(ah, 2 * i - 2)) * 16
                       + HPKE_A2B(At(ah, 2 * i - 1)) ] ]

RECURSIVE EchAddLoop(_, _, _, _)
\* while (!done): decode the list at outp; mem is outbuf and the memory
\* that follows it
EchAddLoop(mem, outp, oleftover, retechs) ==
  With(ECHConfigs_from_binary(Slice(mem, outp, oleftover), oleftover),
       LAMBDA er :
    IF ~er.ok THEN [ rv |-> 0, num_echs |-> 0, echs |-> << >> ]
    ELSE IF er.leftover <= 0
    THEN [ rv |-> 1, num_echs |-> Len(retechs) + 1,
           echs |-> Append(retechs, [ cfg |-> er ]) ]
    ELSE EchAddLoop(mem, outp + er.encoded_len, er.leftover,
                    Append(retechs, [ cfg |-> er ])))

\* what local_ech_add returns without touching *num_echs and *echs
EchAddReturn(rv) == [ rv |-> rv, num_echs |-> 0, echs |-> << >> ]

\* the decodes of local_ech_add for the format detfmt; ekcpy is the memory
\* from the first octet of the encoded value on
EchAddDecode(detfmt, eklen, ekcpy) ==
  IF detfmt = ECH_FMT_B64TXT
  THEN With(ech_base64_decode(ekcpy), LAMBDA d :
         [ ok |-> d.rv > 0, outbuf |-> d.out ])
  ELSE IF detfmt = ECH_FMT_ASCIIHEX
  THEN With(hpke_ah_decode(eklen, ekcpy), LAMBDA d :
         [ ok |-> d.rv # 0, outbuf |-> d.buf ])
  ELSE [ ok |-> TRUE, outbuf |-> Slice(ekcpy, 0, eklen) ]

\* local_ech_add(ekfmt, eklen, ekval, &num_echs, &echs): ekval is the memory
\* from the first octet of the value on, heap the memory that follows the
\* decoded buffer
local_ech_add(ekfmt, eklen, ekval, heap) ==
  IF eklen = 0 THEN EchAddReturn(0)
  ELSE IF eklen >= ECH_MAX_RRVALUE_LEN THEN EchAddReturn(0)
  ELSE IF ekfmt \notin { ECH_FMT_GUESS, ECH_FMT_HTTPSSVC, ECH_FMT_ASCIIHEX,
                         ECH_FMT_B64TXT, ECH_FMT_BIN } THEN EchAddReturn(0)
  ELSE With(IF ekfmt = ECH_FMT_GUESS THEN ech_guess_fmt(eklen, ekval)
            ELSE [ rv |-> 0, guessedfmt |-> ekfmt ], LAMBDA g :
    IF ekfmt = ECH_FMT_GUESS /\ g.rv = 0 THEN EchAddReturn(0)
    ELSE IF g.guessedfmt = ECH_FMT_HTTPSSVC
              /\ strstr(ekval, httpssvc_telltale) = -1 THEN EchAddReturn(g.rv)
    ELSE IF g.guessedfmt = ECH_FMT_HTTPSSVC
              /\ strlen(ekval) - strstr(ekval, httpssvc_telltale)
                   <= Len(httpssvc_telltale) THEN EchAddReturn(g.rv)
    ELSE With(IF g.guessedfmt = ECH_FMT_HTTPSSVC
              THEN EchAddDecode(ECH_FMT_B64TXT, eklen,
                     SubSeq(ekval, strstr(ekval, httpssvc_telltale)
                                     + Len(httpssvc_telltale) + 1, Len(ekval)))
              ELSE EchAddDecode(g.guessedfmt, eklen, ekval), LAMBDA d :
      IF ~d.ok THEN EchAddReturn(0)
      ELSE EchAddLoop(d.outbuf \o heap, 0, Len(d.outbuf), << >>)))


ECH_PCODE_ECH == 5

\* size_t arithmetic: a difference below zero wraps to a value above any
\* length
SizeWrap(n) == IF n < 0 THEN n + 2147483647 ELSE n

RECURSIVE RdataNameLoop(_, _, _, _, _, _)
\* while(clen!=0) of local_decode_rdata_name: cp0 and rem0 are *buf and
\* *remaining at the call, which stay as they are when a chunk is longer
\* than what remains; read is the offset behind the last octet read
RdataNameLoop(buf, cp0, rem0, cp, rem, clen) ==
  IF clen = 0 THEN [ rv |-> 1, cp |-> cp, remaining |-> rem, read |-> cp ]
  ELSE IF clen > rem
  THEN [ rv |-> 1, cp |-> cp0, remaining |-> rem0, read |-> cp ]
  ELSE RdataNameLoop(buf, cp0, rem0, cp + clen + 1,
                     SizeWrap(rem - (clen + 1)), At(buf, cp + clen))

\* local_decode_rdata_name(&cp, &remaining, &dnsname)
local_decode_rdata_name(buf, cp, remaining) ==
  RdataNameLoop(buf, cp, remaining, cp + 1, remaining, At(buf, cp))

RECURSIVE SvcParamLoop(_, _, _)
\* while (!done && remaining>=4): the SvcParams up to the ech one; read is
\* the offset behind the last octet read, 0 when none was
SvcParamLoop(buf, cp, remaining) ==
  IF ~(remaining >= 4)
  THEN [ done |-> FALSE, eklen |-> 0, ekval |-> 0, read |-> 0 ]
  ELSE IF Rd16(buf, cp) = ECH_PCODE_ECH
  THEN [ done |-> TRUE, eklen |-> Rd16(buf, cp + 2), ekval |-> cp + 4,
         read |-> cp + 4 ]
  ELSE With(IF Rd16(buf, cp + 2) # 0 /\ Rd16(buf, cp + 2) <= remaining - 4
            THEN SvcParamLoop(buf, cp + 4 + Rd16(buf, cp + 2),
                              remaining - 4 - Rd16(buf, cp + 2))
            ELSE SvcParamLoop(buf, cp + 4, remaining - 4), LAMBDA p :
         [ p EXCEPT !.read = IF @ < cp + 4 THEN cp + 4 ELSE @ ])

\* what local_svcb_add returns without a list of configs; no walk through
\* the RData is recorded
SvcbReturn(rv, fault) ==
  [ rv |-> rv, num_echs |-> 0, echs |-> << >>, fault |-> fault,
    walked |-> FALSE, binlen |-> 0, read |-> 0, done |-> FALSE,
    ekval |-> 0, eklen |-> 0 ]

\* the return r of local_svcb_add with its walk through the RData of
\* binlen octets: n is what the name decoder left, p what the loop over
\* the SvcParams left
SvcbWalked(r, binlen, n, p) ==
  [ r EXCEPT !.walked = TRUE, !.binlen = binlen,
             !.read = IF n.read < p.read THEN p.read ELSE n.read,
             !.done = p.done, !.ekval = p.ekval, !.eklen = p.eklen ]

\* the binary RData local_svcb_add works on: decoded from ASCII-hex or
\* base64; for any other format binbuf stays NULL and binlen 0.  A base64
\* decode that fails leaves binbuf NULL and binlen (size_t)-1.
SvcbDecode(detfmt, rrlen, rrval) ==
  IF detfmt = ECH_FMT_ASCIIHEX
  THEN With(hpke_ah_decode(rrlen, rrval), LAMBDA d :
         [ rv |-> d.rv, null |-> FALSE, binbuf |-> d.buf,
           binlen |-> Len(d.buf) ])
  ELSE IF detfmt = ECH_FMT_B64TXT
  THEN With(ech_base64_decode(rrval), LAMBDA d :
         [ rv |-> IF d.rv = 0 THEN 0 ELSE 1, null |-> d.rv < 0,
           binbuf |-> d.out, binlen |-> SizeWrap(d.rv) ])
  ELSE [ rv |-> 1, null |-> TRUE, binbuf |-> << >>, binlen |-> 0 ]

\* local_svcb_add(rrfmt, rrlen, rrval, &num_echs, &echs): rrval is the
\* memory from the first octet of the value on
local_svcb_add(rrfmt, rrlen, rrval, heap) ==
  With(IF rrfmt \in { ECH_FMT_ASCIIHEX, ECH_FMT_BIN }
       THEN [ rv |-> 1, guessedfmt |-> rrfmt ]
       ELSE ech_guess_fmt(rrlen, rrval), LAMBDA g :
    IF g.rv = 0 THEN SvcbReturn(0, FALSE)
    ELSE With(SvcbDecode(g.guessedfmt, rrlen, rrval), LAMBDA b :
      IF b.rv = 0 THEN SvcbReturn(0, FALSE)
      ELSE IF b.binlen <= 2 THEN SvcbReturn(0, FALSE)
      \* reads through the NULL binbuf
      ELSE IF b.null THEN SvcbReturn(0, TRUE)
      ELSE With(local_decode_rdata_name(b.binbuf \o heap, 2, b.binlen - 2),
                LAMBDA n :
        With(SvcParamLoop(b.binbuf \o heap, n.cp, n.remaining), LAMBDA p :
          IF ~p.done THEN SvcbWalked(SvcbReturn(1, FALSE), b.binlen, n, p)
          ELSE With(local_ech_add(ECH_FMT_BIN, p.eklen,
                      SubSeq(b.binbuf, p.ekval + 1, Len(b.binbuf)) \o heap,
                      heap), LAMBDA a :
                 IF a.rv # 1
                 THEN SvcbWalked(SvcbReturn(0, FALSE), b.binlen, n, p)
                 ELSE SvcbWalked([ SvcbReturn(1, FALSE) EXCEPT
                                     !.num_echs = a.num_echs,
                                     !.echs = a.echs ], b.binlen, n, p))))))

(***************************************************************************)
(* Config codec: the values a client application hands to SSL_ech_add and  *)
(* SSL_svcb_add                                                            *)
(***************************************************************************)

\* the wire encoding of one draft-09 ECHConfig
EncodeConfig09(public_name, pub, kem_id, suites, maxname, exts) ==
  With(U16(Len(public_name)) \o public_name \o U16(Len(pub)) \o pub
         \o U16(kem_id) \o U16(Len(suites)) \o suites \o U16(maxname)
         \o U16(Len(exts)) \o exts, LAMBDA body :
    U16(ECH_DRAFT_09_VERSION) \o U16(Len(body)) \o body)

\* one ECHConfig of a list, as its publisher describes it: the version, the
\* key pair, the octets of the cipher suites, and the length of the contents
\* of a config of a version this code does not know
Item(version, k, suites, ulen) ==
  [ version |-> version, k |-> k, suites |-> suites, ulen |-> ulen ]

\* the first n octets of the suites (HKDF-SHA256, AES-128-GCM) and
\* (HKDF-SHA384, AES-128-GCM)
SuiteOctets(n) ==
  SubSeq(U16(HPKE_KDF_ID_HKDF_SHA256) \o U16(HPKE_AEAD_ID_AES_GCM_128)
           \o U16(HPKE_KDF_ID_HKDF_SHA384) \o U16(HPKE_AEAD_ID_AES_GCM_128),
         1, n)

NameOfKey(k) == IF k = 2 THEN NameB ELSE NameA

\* the extension a draft-09 config of the model carries
ItemExts == ExtBytes(4660, << 1, 2, 3 >>)

EncodeItem(it) ==
  IF it.version = ECH_DRAFT_10_VERSION
  THEN EncodeConfig(ConfigIdOf(it.k), HPKE_KEM_ID_25519, PubOf(it.k),
                    it.suites, 64, NameOfKey(it.k))
  ELSE IF it.version = ECH_DRAFT_09_VERSION
  THEN EncodeConfig09(NameOfKey(it.k), PubOf(it.k), HPKE_KEM_ID_25519,
                      it.suites, 64, ItemExts)
  ELSE U16(it.version) \o U16(it.ulen) \o Fill(it.ulen, 7)

RECURSIVE EncodeItems(_)
EncodeItems(l) ==
  IF l = << >> THEN << >> ELSE EncodeItem(Head(l)) \o EncodeItems(Tail(l))

\* an ECHConfigList: the declared length, the configs, and then garbage
\* octets that the declared length counts; short octets of the last config
\* are not counted by the declared length
EncodeList(l, garbage, short) ==
  With(EncodeItems(l), LAMBDA body :
    U16(Len(body) + garbage - short) \o body \o Fill(garbage, 255))

GoodItems ==
  { Item(ECH_DRAFT_10_VERSION, 1, SuiteOctets(4), 0),
    Item(ECH_DRAFT_10_VERSION, 2, SuiteOctets(8), 0),
    Item(ECH_DRAFT_09_VERSION, 3, SuiteOctets(4), 0) }

UnknownItems ==
  { Item(ECH_DRAFT_10_VERSION + 1, 0, << >>, ulen) : ulen \in { 1, 5 } }

BadSuiteItems ==
  { Item(v, 1, SuiteOctets(n), 0) :
      v \in { ECH_DRAFT_09_VERSION, ECH_DRAFT_10_VERSION }, n \in { 0, 2, 6 } }

\* the lists of 1..n items of S
ItemLists(S, n) == UNION { [ 1..m -> S ] : m \in 1..n }

\* a value handed to the codec: lists are the ECHConfigLists it is made of
DecInput(kind, lists, garbage, short) ==
  [ kind |-> kind, lists |-> lists, garbage |-> garbage, short |-> short,
    text |-> << >> ]

RECURSIVE EncodeLists(_, _, _)
\* the concatenation of the lists; garbage and short apply to the last one
EncodeLists(lists, garbage, short) ==
  IF Len(lists) = 1 THEN EncodeList(lists[1], garbage, short)
  ELSE EncodeList(lists[1], 0, 0) \o EncodeLists(Tail(lists), garbage, short)

\* the lists that are concatenated in the model
CatLists ==
  { << Item(ECH_DRAFT_10_VERSION, 1, SuiteOctets(4), 0) >>,
    << Item(ECH_DRAFT_09_VERSION, 3, SuiteOctets(4), 0),
       Item(ECH_DRAFT_10_VERSION, 2, SuiteOctets(8), 0) >> }

BinInputs ==
  { DecInput("bin", << l >>, 0, 0) :
      l \in ItemLists(GoodItems \cup UnknownItems, MaxCfgs) }
  \cup { DecInput("bin", << << g >> >>, garbage, 0) :
           g \in GoodItems, garbage \in 1..3 }
  \cup { DecInput("bin", << << g >> >>, 0, short) :
           g \in GoodItems, short \in { 1, 3 } }
  \cup { DecInput("bin", << << b >> >>, 0, 0) : b \in BadSuiteItems }
  \cup { DecInput("bin", << << g, b >> >>, 0, 0) :
           g \in GoodItems, b \in BadSuiteItems }
  \cup { DecInput("bin", << l1, l2 >>, 0, 0) : l1 \in CatLists, l2 \in CatLists }
  \cup { DecInput("bin", << l, l, l >>, 0, 0) : l \in CatLists }


\* a value that is text, or octets that are no list
TextInput(kind, lists, text) ==
  [ kind |-> kind, lists |-> lists, garbage |-> 0, short |-> 0,
    text |-> text ]

\* two hexadecimal digits an octet
HexEncode(b) ==
  [ i \in 1..(2 * Len(b)) |->
      LET n == IF i % 2 = 1 THEN b[(i + 1) \div 2] \div 16
               ELSE b[i \div 2] % 16
      IN IF n < 10 THEN 48 + n ELSE 87 + n ]

\* digit d (0..3) of the group of the three octets of b from offset off on:
\* '=' where an octet is missing
Base64Digit(b, off, d) ==
  IF d = 0 THEN B64Digits[(At(b, off) \div 4) + 1]
  ELSE IF d = 1
  THEN B64Digits[(At(b, off) % 4) * 16 + (At(b, off + 1) \div 16) + 1]
  ELSE IF d = 2
  THEN IF off + 1 >= Len(b) THEN 61
       ELSE B64Digits[(At(b, off + 1) % 16) * 4 + (At(b, off + 2) \div 64) + 1]
  ELSE IF off + 2 >= Len(b) THEN 61
       ELSE B64Digits[(At(b, off + 2) % 64) + 1]

\* four digits for three octets
Base64Encode(b) ==
  [ i \in 1..(4 * ((Len(b) + 2) \div 3)) |->
      Base64Digit(b, 3 * ((i - 1) \div 4), (i - 1) % 4) ]

\* the values the format guesser is asked about: text of hexadecimal
\* digits, of base64 digits, the HTTPS/SVCB presentation form, other text,
\* and octets with a NUL among them
TextInputs ==
  { TextInput("text", << >>, pre \o mid \o post) :
      pre \in { << >>, << 0, 67 >>, << 97, 98 >>, << 90, 122, 43 >>,
                << 49, 32 >> },
      mid \in { << >>, httpssvc_telltale },
      post \in { << 51, 48, 56, 50 >>, << 65, 69, 80, 47 >>,
                 << 120, 32, 121 >>, << 59, 61 >> } }

\* SVCB RData: SvcPriority, TargetName, SvcParams; the ech parameter
\* carries the list l
SvcbRData(name, before, l) ==
  U16(1) \o name \o before \o U16(ECH_PCODE_ECH)
    \o U16(Len(EncodeList(l, 0, 0))) \o EncodeList(l, 0, 0)

\* RData whose lengths promise more than is there, as ASCII-hex: a label
\* of TargetName longer than what remains, a TargetName that ends with
\* the RData and has no root label, a parameter before the ech one and an
\* ech parameter longer than what remains, and three octets where a
\* parameter would start
ShortRDataInputs ==
  { TextInput("rdata_label", << >>, HexEncode(U16(1) \o << 9, 97, 98 >>)),
    TextInput("rdata_noroot", << >>, HexEncode(U16(1) \o << 2, 97, 98 >>)) }
  \cup { TextInput("rdata_param", << >>,
                   HexEncode(U16(1) \o << 0 >> \o U16(1) \o U16(200)
                               \o << 2, 104, 50 >>)) }
  \cup { TextInput("rdata_echlen", << l >>,
                   HexEncode(U16(1) \o << 0 >> \o U16(ECH_PCODE_ECH)
                               \o U16(Len(EncodeList(l, 0, 0)) + over)
                               \o EncodeList(l, 0, 0))) :
           l \in CatLists, over \in { 1, 40 } }
  \cup { TextInput("rdata_tail", << >>,
                   HexEncode(U16(1) \o << 0 >> \o << 0, 1, 0 >>)) }

\* RData in the three transports, and RData without an ech parameter
RDataInputs ==
  UNION { { TextInput("rdata_bin", << l >>, SvcbRData(name, before, l)),
            TextInput("rdata_hex", << l >>,
                      HexEncode(SvcbRData(name, before, l))),
            TextInput("rdata_b64", << l >>,
                      Base64Encode(SvcbRData(name, before, l))) } :
          name \in { << 0 >>, << 1, 97 >> \o << 1, 99 >> \o << 0 >> },
          before \in { << >>, U16(1) \o U16(3) \o << 2, 104, 50 >> },
          l \in CatLists }
  \cup { TextInput("rdata_none", << >>,
                   HexEncode(U16(1) \o << 0 >> \o U16(1) \o U16(3)
                               \o << 2, 104, 50 >>)) }
  \cup ShortRDataInputs

\* the octets of a value
InputBytes(d) ==
  IF d.kind = "bin" THEN EncodeLists(d.lists, d.garbage, d.short) ELSE d.text

DecInputs == BinInputs \cup TextInputs \cup RDataInputs

\* what the memory after the caller's buffer may hold: a NUL, or octets of
\* some other object
MemTails == { << 0 >>, << 59 >> \o httpssvc_telltale \o << 65, 0 >> }

\* what the memory after the decoded buffer may hold when local_ech_add
\* reads it: zeros, an ECHConfigList, or the very octets that were expected
HeapAfter(d) ==
  { << >>, EncodeList(<< Item(ECH_DRAFT_10_VERSION, 2, SuiteOctets(4), 0) >>,
                      0, 0) }
  \cup IF Len(d.lists) > 1 THEN { EncodeLists(Tail(d.lists), 0, 0) } ELSE {}

\* no call made yet on the client connection
NoCall == [ op |-> "none", fmt |-> ECH_FMT_GUESS, heap |-> << >>,
            r |-> [ rv |-> 0 ] ]

DecInit ==
  /\ \E d \in DecInputs, tail \in MemTails :
       cl = [ desc |-> d, input |-> InputBytes(d), tail |-> tail,
              ech |-> << >>, nechs |-> 0, ech_attempted |-> 0,
              call |-> NoCall ]
  /\ ctx = EmptyCtx
  /\ now = 0
  /\ mtime = [ f \in PemFiles |-> 0 ]
  /\ lastop = NoOp
  /\ conn = SSL_new(EmptyCtx, FALSE)
  /\ wire = NoWire
  /\ srv = NoSrv
  /\ hpke_sealed = {}
  /\ status = "none"
  /\ ac = NoAc
  /\ pc = "codec"
  /\ alloc = NoHeap

\* the binary decoder on the whole value
FromBinary ==
  /\ pc = "codec"
  /\ cl.call.op = "none"
  /\ \E r \in { ECHConfigs_from_binary(cl.input, Len(cl.input)) } :
       cl' = [ cl EXCEPT !.call = [ op |-> "from_binary", fmt |-> ECH_FMT_BIN,
                                    heap |-> << >>, r |-> r ] ]
  /\ UNCHANGED << storevars, alloc, conn, wire, srv, hpke_sealed, status,
                  ac, pc >>

\* SSL_ech_add(con, ekfmt, eklen, ekval, &num_echs)
SslEchAdd ==
  /\ pc = "codec"
  /\ cl.call.op = "none"
  /\ \E ekfmt \in { ECH_FMT_GUESS, ECH_FMT_BIN, ECH_FMT_ASCIIHEX,
                    ECH_FMT_B64TXT, ECH_FMT_HTTPSSVC },
        heap \in HeapAfter(cl.desc) :
       \E r \in { local_ech_add(ekfmt, Len(cl.input), cl.input \o cl.tail,
                                heap) } :
         cl' = [ cl EXCEPT
                   !.call = [ op |-> "ech_add", fmt |-> ekfmt, heap |-> heap,
                              r |-> r ],
                   !.ech = IF r.rv = 1 THEN r.echs ELSE @,
                   !.nechs = IF r.rv = 1 THEN r.num_echs ELSE @,
                   !.ech_attempted = IF r.rv = 1 THEN 1 ELSE @ ]
  /\ UNCHANGED << storevars, alloc, conn, wire, srv, hpke_sealed, status,
                  ac, pc >>

\* the format guesser on the value
GuessFmt ==
  /\ pc = "codec"
  /\ cl.call.op = "none"
  /\ \E r \in { ech_guess_fmt(Len(cl.input), cl.input \o cl.tail) } :
       cl' = [ cl EXCEPT !.call = [ op |-> "guess_fmt", fmt |-> ECH_FMT_GUESS,
                                    heap |-> << >>, r |-> r ] ]
  /\ UNCHANGED << storevars, alloc, conn, wire, srv, hpke_sealed, status,
                  ac, pc >>

\* SSL_svcb_add(con, rrfmt, rrlen, rrval, &num_echs)
SslSvcbAdd ==
  /\ pc = "codec"
  /\ cl.call.op = "none"
  /\ \E rrfmt \in { ECH_FMT_GUESS, ECH_FMT_BIN, ECH_FMT_ASCIIHEX,
                    ECH_FMT_B64TXT },
        heap \in HeapAfter(cl.desc) :
       \E r \in { local_svcb_add(rrfmt, Len(cl.input), cl.input \o cl.tail,
                                 heap) } :
         cl' = [ cl EXCEPT
                   !.call = [ op |-> "svcb_add", fmt |-> rrfmt, heap |-> heap,
                              r |-> r ],
                   !.ech = IF r.rv = 1 THEN r.echs ELSE << >>,
                   !.nechs = IF r.rv = 1 THEN r.num_echs ELSE 0 ]
  /\ UNCHANGED << storevars, alloc, conn, wire, srv, hpke_sealed, status,
                  ac, pc >>

DecNext ==
  \/ FromBinary
  \/ SslEchAdd
  \/ GuessFmt
  \/ SslSvcbAdd

DecSpec == DecInit /\ [][DecNext]_vars


(***************************************************************************)
(* Client API: the calls an application makes on a connection before the   *)
(* handshake (outer name, GREASE suite, outer ALPN) and the GREASE         *)
(* extension the connection then sends                                     *)
(***************************************************************************)

\* a pointer to octets: NULL, or a buffer of its own
NullBuf == [ isnull |-> TRUE, data |-> << >> ]

\* a C string pointer: NULL, the address of a static string, or a copy on
\* the heap
NullStr == [ ptr |-> "null", str |-> << >> ]
HeapStr(s) == [ ptr |-> "heap", str |-> s ]

\* ech_public_name_override_null, "DON'T SEND ANY OUTER NAME"
ECH_PUBLIC_NAME_OVERRIDE_NULL ==
  [ ptr |-> "static",
    str |-> << 68, 79, 78, 39, 84, 32, 83, 69, 78, 68, 32, 65, 78, 89, 32,
               79, 85, 84, 69, 82, 32, 78, 65, 77, 69 >> ]

OPENSSL_strdup(p) == IF p.ptr = "null" THEN NullStr ELSE HeapStr(p.str)

\* the test on the outer_name argument, without the test of its length
OuterNameToStoreNullOnly(outer_name) ==
  IF outer_name.ptr # "null" THEN OPENSSL_strdup(outer_name)
  ELSE ECH_PUBLIC_NAME_OVERRIDE_NULL

\* what SSL_ech_server_name and SSL_ech_set_outer_server_name assign to
\* s->ech->outer_name
OuterNameToStore(outer_name) ==
  IF outer_name.ptr # "null" /\ strlen(outer_name.str) > 0
  THEN OPENSSL_strdup(outer_name)
  ELSE ECH_PUBLIC_NAME_OVERRIDE_NULL

\* SSL_ech_server_name(s, inner_name, outer_name); freed are the pointers
\* handed to OPENSSL_free
SSL_ech_server_name(s, inner_name, outer_name) ==
  IF s.isnull \/ inner_name.ptr = "null"
  THEN [ rv |-> 0, s |-> s, freed |-> {} ]
  ELSE [ rv |-> 1,
         s |-> [ s EXCEPT !.inner_name = OPENSSL_strdup(inner_name),
                          !.outer_name = OuterNameToStore(outer_name),
                          !.ech_attempted = 1 ],
         freed |-> { s.inner_name, s.outer_name } \ { NullStr } ]

\* SSL_ech_set_outer_server_name(s, outer_name)
SSL_ech_set_outer_server_name(s, outer_name) ==
  IF s.isnull
  THEN [ rv |-> 0, s |-> s, freed |-> {} ]
  ELSE [ rv |-> 1,
         s |-> [ s EXCEPT !.outer_name = OuterNameToStore(outer_name),
                          !.ech_attempted = 1 ],
         freed |-> { s.outer_name } \ { NullStr } ]

\* SSL_CTX_ech_set_outer_server_name(s, outer_name), c the context with
\* isnull for s->ext.ech == NULL
SSL_CTX_ech_set_outer_server_name(c, outer_name) ==
  IF c.isnull
  THEN [ rv |-> 0, s |-> c, freed |-> {} ]
  ELSE [ rv |-> 1,
         s |-> [ c EXCEPT !.outer_name = OuterNameToStore(outer_name) ],
         freed |-> { c.outer_name } \ { NullStr } ]

\* the names SSL_ECH_free(tbf) hands to OPENSSL_free, and tbf after its
\* memset: inner_name by CFREE, outer_name by CFREE unless it is the marker
SSL_ECH_free_names(tbf) ==
  IF tbf.isnull THEN [ s |-> tbf, freed |-> {} ]
  ELSE
  [ s |-> [ tbf EXCEPT !.inner_name = NullStr, !.outer_name = NullStr ],
    freed |-> ({ tbf.inner_name }
               \cup (IF tbf.outer_name # ECH_PUBLIC_NAME_OVERRIDE_NULL
                     THEN { tbf.outer_name } ELSE {})) \ { NullStr } ]

\* the suites an application may name for GREASE, as text: X25519 with
\* SHA256 (the default suite), X25519 with SHA384, P-256 with SHA384, and
\* a text that names no suite
SuiteTextDefault == << 48, 120, 50, 48, 44, 49, 44, 49 >>
SuiteTextSha384 == << 48, 120, 50, 48, 44, 50, 44, 49 >>
SuiteTextP256 == << 48, 120, 49, 48, 44, 50, 44, 49 >>
SuiteTextBogus == << 98, 111, 103, 117, 115 >>

\* hpke_str2suite(str, &suite): [rv, suite]
hpke_str2suite(str) ==
  IF str = SuiteTextDefault THEN [ rv |-> 1, suite |-> HPKE_SUITE_DEFAULT ]
  ELSE IF str = SuiteTextSha384
  THEN [ rv |-> 1, suite |-> [ HPKE_SUITE_DEFAULT EXCEPT
                                 !.kdf_id = HPKE_KDF_ID_HKDF_SHA384 ] ]
  ELSE IF str = SuiteTextP256
  THEN [ rv |-> 1, suite |-> [ kem_id |-> HPKE_KEM_ID_P256,
                               kdf_id |-> HPKE_KDF_ID_HKDF_SHA384,
                               aead_id |-> HPKE_AEAD_ID_AES_GCM_128 ] ]
  ELSE [ rv |-> 0, suite |-> HPKE_SUITE_DEFAULT ]

\* hpke_good4grease(suite_in, suite, pub, &pub_len, cipher, cipher_len):
\* a public value of the length of the KEM of suite_in, or of suite when
\* suite_in is NULL, and cipher_len octets, all random; suite is passed by
\* value
hpke_good4grease(suite_in_p, suite, cipher_len, rnd) ==
  With(IF suite_in_p.isnull THEN suite ELSE suite_in_p.suite, LAMBDA chosen :
    IF hpke_suite_check(chosen) # 1
    THEN [ rv |-> 0, pub |-> << >>, cipher |-> << >> ]
    ELSE [ rv |-> 1, pub |-> Fill(KemNpk(chosen.kem_id), rnd),
           cipher |-> Fill(cipher_len, rnd) ])

\* SSL_ech_set_grease_suite(s, suite)
SSL_ech_set_grease_suite(s, suite) ==
  IF suite.ptr = "null" THEN [ rv |-> 0, s |-> s, freed |-> {} ]
  ELSE [ rv |-> 1, s |-> [ s EXCEPT !.ech_grease_suite = OPENSSL_strdup(suite) ],
         freed |-> { s.ech_grease_suite } \ { NullStr } ]

\* cipher_len of ech_send_grease
GreaseCipherLen == 467

\* the extension without its config_id octet
GreaseExtNoCid(hpke_suite, cid, senderpub, cipher) ==
  U16(TLSEXT_TYPE_ech)
  \o U16(2 + 2 + 2 + Len(senderpub) + 2 + Len(cipher))
  \o U16(hpke_suite.kdf_id) \o U16(hpke_suite.aead_id)
  \o U16(Len(senderpub)) \o senderpub \o U16(Len(cipher)) \o cipher

\* the WPACKET calls of ech_send_grease
GreaseExt(hpke_suite, cid, senderpub, cipher) ==
  U16(TLSEXT_TYPE_ech)
  \o U16(2 + 2 + 1 + 2 + Len(senderpub) + 2 + Len(cipher))
  \o U16(hpke_suite.kdf_id) \o U16(hpke_suite.aead_id) \o << cid >>
  \o U16(Len(senderpub)) \o senderpub \o U16(Len(cipher)) \o cipher

\* the suite ech_send_grease hands to hpke_good4grease as suite_in
GreaseSuiteIn(s) ==
  IF s.ech_grease_suite.ptr # "null"
  THEN With(hpke_str2suite(s.ech_grease_suite.str), LAMBDA p :
         [ rv |-> p.rv, isnull |-> FALSE, suite |-> p.suite ])
  ELSE [ rv |-> 1, isnull |-> TRUE, suite |-> HPKE_SUITE_DEFAULT ]

\* ech_send_grease(s, pkt, context, x, chainidx) with the octets RAND_bytes
\* gives: hpke_suite stays HPKE_SUITE_DEFAULT, hpke_suite_in is the pinned
\* suite
ech_send_grease(s, cid, rnd) ==
  With(GreaseSuiteIn(s), LAMBDA in :
    IF in.rv # 1 THEN [ rv |-> 0, s |-> s ]
    ELSE With(hpke_good4grease(in, HPKE_SUITE_DEFAULT, GreaseCipherLen, rnd),
              LAMBDA g :
           IF g.rv # 1 THEN [ rv |-> 0, s |-> s ]
           ELSE [ rv |-> 1,
                  s |-> [ s EXCEPT
                            !.pkt = @ \o GreaseExt(HPKE_SUITE_DEFAULT, cid,
                                                   g.pub, g.cipher),
                            !.ech_grease = ECH_IS_GREASE ] ]))

\* the octets RAND_bytes may give
RandOctets == { 7, 200 }

\* OPENSSL_memdup(data, siz): NULL for NULL data, for no octets, and when
\* malloc fails
OPENSSL_memdup(data, siz, oom) ==
  IF data.isnull \/ siz = 0 \/ oom THEN NullBuf
  ELSE [ isnull |-> FALSE, data |-> Slice(data.data, 0, siz) ]

\* SSL_CTX_ech_set_outer_alpn_protos(ctx, protos, protos_len)
SSL_CTX_ech_set_outer_alpn_protos(c, protos, protos_len, oom) ==
  With(OPENSSL_memdup(protos, protos_len, oom), LAMBDA dup :
    IF dup.isnull THEN [ rv |-> 1, s |-> [ c EXCEPT !.alpn_outer = dup ] ]
    ELSE [ rv |-> 0, s |-> [ c EXCEPT !.alpn_outer = dup,
                                      !.alpn_outer_len = protos_len ] ])

\* SSL_ech_set_outer_alpn_protos(ssl, protos, protos_len)
SSL_ech_set_outer_alpn_protos(ssl, protos, protos_len, oom) ==
  With(OPENSSL_memdup(protos, protos_len, oom), LAMBDA dup :
    IF dup.isnull THEN [ rv |-> 1, s |-> [ ssl EXCEPT !.alpn_outer = dup ] ]
    ELSE [ rv |-> 0, s |-> [ ssl EXCEPT !.alpn_outer = dup,
                                        !.alpn_outer_len = protos_len ] ])

\* the ALPN lists an application passes: NULL, an empty list, "h2", and
\* "h2" followed by "http/1.1"
AlpnArgs ==
  { NullBuf, [ isnull |-> FALSE, data |-> << >> ],
    [ isnull |-> FALSE, data |-> << 2, 104, 50 >> ],
    [ isnull |-> FALSE,
      data |-> << 2, 104, 50, 8, 104, 116, 116, 112, 47, 49, 46, 49 >> ] }

\* the context of a client: no outer ALPN and no outer name set; isnull
\* stands for ext.ech == NULL
ApiCtx ==
  [ alpn_outer |-> NullBuf, alpn_outer_len |-> 0, isnull |-> FALSE,
    inner_name |-> NullStr, outer_name |-> NullStr ]

\* the strings an application passes as a name: NULL, "", and two names
NameArgs == { NullStr, HeapStr(<< >>), HeapStr(NameA), HeapStr(NameB) }

\* OPENSSL_free of a pointer that malloc did not return is undefined: the
\* call either aborts the process or goes on
FreeOutcomes(freed) ==
  IF \E p \in freed : p.ptr = "static" THEN { "abort", "done" }
  ELSE { "done" }

\* the calls made on one connection are at most MaxCalls
MaxCalls == 2

\* a client connection before the handshake: s->ech is NULL or holds one
\* ECHConfig, nothing else is set
ApiInit ==
  /\ \E isnull \in BOOLEAN, pn \in { NameA, NameB } :
       cl = [ isnull |-> isnull, public_name |-> pn,
              inner_name |-> NullStr, outer_name |-> NullStr,
              ech_attempted |-> 0, ech_success |-> 0, ech_backend |-> 0,
              ech_grease |-> ECH_GREASE_UNKNOWN, verify_ok |-> TRUE,
              ech_grease_suite |-> NullStr, pkt |-> << >>,
              alpn_outer |-> NullBuf, alpn_outer_len |-> 0,
              ncalls |-> 0, call |-> [ op |-> "none" ] ]
  /\ \E isnull \in BOOLEAN : ctx = [ ApiCtx EXCEPT !.isnull = isnull ]
  /\ now = 0
  /\ mtime = [ f \in PemFiles |-> 0 ]
  /\ lastop = NoOp
  /\ conn = SSL_new(EmptyCtx, FALSE)
  /\ wire = NoWire
  /\ srv = NoSrv
  /\ hpke_sealed = {}
  /\ status = "none"
  /\ ac = NoAc
  /\ pc = "api"
  /\ alloc = NoHeap

\* the connection after a call that returned r with the given outcome
AfterCall(op, arg, r, outcome) ==
  [ (IF outcome = "done" THEN r.s ELSE cl) EXCEPT
      !.ncalls = cl.ncalls + 1,
      !.call = [ op |-> op, arg |-> arg, rv |-> r.rv, outcome |-> outcome ] ]

\* the connection after a call that handed the pointers r.freed to
\* OPENSSL_free
AfterFreeCall(op, arg, r, outcome) ==
  [ AfterCall(op, arg, r, outcome) EXCEPT
      !.call = [ op |-> op, arg |-> arg, rv |-> r.rv, outcome |-> outcome,
                 freed |-> r.freed ] ]

EchServerName ==
  /\ pc = "api"
  /\ cl.ncalls < MaxCalls
  /\ \E inner_name \in { NullStr, HeapStr(InnerName) }, outer_name \in NameArgs :
       \E r \in { SSL_ech_server_name(cl, inner_name, outer_name) } :
         \E outcome \in FreeOutcomes(r.freed) :
           /\ cl' = AfterFreeCall("server_name", outer_name, r, outcome)
           /\ pc' = IF outcome = "abort" THEN "aborted" ELSE pc
  /\ UNCHANGED << storevars, alloc, conn, wire, srv, hpke_sealed, status, ac >>

SetOuterServerName ==
  /\ pc = "api"
  /\ cl.ncalls < MaxCalls
  /\ \E outer_name \in NameArgs :
       \E r \in { SSL_ech_set_outer_server_name(cl, outer_name) } :
         \E outcome \in FreeOutcomes(r.freed) :
           /\ cl' = AfterFreeCall("set_outer_server_name", outer_name, r,
                                outcome)
           /\ pc' = IF outcome = "abort" THEN "aborted" ELSE pc
  /\ UNCHANGED << storevars, alloc, conn, wire, srv, hpke_sealed, status, ac >>

CtxSetOuterServerName ==
  /\ pc = "api"
  /\ cl.ncalls < MaxCalls
  /\ \E outer_name \in NameArgs :
       \E r \in { SSL_CTX_ech_set_outer_server_name(ctx, outer_name) } :
         \E outcome \in FreeOutcomes(r.freed) :
           /\ ctx' = IF outcome = "done" THEN r.s ELSE ctx
           /\ cl' = [ cl EXCEPT !.ncalls = @ + 1,
                                !.call = [ op |-> "ctx_set_outer_server_name",
                                           arg |-> outer_name, rv |-> r.rv,
                                           outcome |-> outcome,
                                           freed |-> r.freed ] ]
           /\ pc' = IF outcome = "abort" THEN "aborted" ELSE pc
  /\ UNCHANGED << now, mtime, lastop, alloc, conn, wire, srv, hpke_sealed,
                  status, ac >>

\* the connection is freed: SSL_ECH_free on its s->ech, and on the ext.ech
\* of its context
EchFree ==
  /\ pc = "api"
  /\ ~cl.isnull
  /\ \E r \in { SSL_ECH_free_names(cl) }, rc \in { SSL_ECH_free_names(ctx) } :
       /\ cl' = [ r.s EXCEPT !.call = [ op |-> "ech_free", arg |-> NullStr,
                                        rv |-> 1, outcome |-> "done",
                                        freed |-> r.freed,
                                        ctx_freed |-> rc.freed ] ]
       /\ ctx' = rc.s
  /\ pc' = "freed"
  /\ UNCHANGED << now, mtime, lastop, alloc, conn, wire, srv, hpke_sealed,
                  status, ac >>

SetGreaseSuite ==
  /\ pc = "api"
  /\ cl.ncalls < MaxCalls
  /\ \E suite \in { NullStr, HeapStr(SuiteTextDefault), HeapStr(SuiteTextSha384),
                    HeapStr(SuiteTextP256), HeapStr(SuiteTextBogus) } :
       \E r \in { SSL_ech_set_grease_suite(cl, suite) } :
         cl' = AfterCall("set_grease_suite", suite, r, "done")
  /\ UNCHANGED << storevars, alloc, conn, wire, srv, hpke_sealed, status, ac,
                  pc >>

\* the client writes its ClientHello: with no ECHConfig on the connection
\* the ECH extension is the one of ech_send_grease
SendGrease ==
  /\ pc = "api"
  /\ cl.isnull
  /\ \E cid \in RandOctets, rnd \in RandOctets :
       \E r \in { ech_send_grease(cl, cid, rnd) } :
         /\ cl' = [ r.s EXCEPT !.call = [ op |-> "send_grease",
                                          arg |-> NullStr, rv |-> r.rv,
                                          outcome |-> "done" ] ]
         /\ status' = SSL_ech_get_status(r.s)
  /\ pc' = "sent"
  /\ UNCHANGED << storevars, alloc, conn, wire, srv, hpke_sealed, ac >>

CtxSetOuterAlpn ==
  /\ pc = "api"
  /\ cl.ncalls < MaxCalls
  /\ \E protos \in AlpnArgs, oom \in BOOLEAN :
       \E r \in { SSL_CTX_ech_set_outer_alpn_protos(ctx, protos,
                                                    Len(protos.data), oom) } :
         /\ ctx' = r.s
         /\ cl' = [ cl EXCEPT !.ncalls = @ + 1,
                              !.call = [ op |-> "ctx_set_outer_alpn",
                                         arg |-> protos, rv |-> r.rv,
                                         outcome |-> "done" ] ]
  /\ UNCHANGED << now, mtime, lastop, alloc, conn, wire, srv, hpke_sealed,
                  status, ac, pc >>

SetOuterAlpn ==
  /\ pc = "api"
  /\ cl.ncalls < MaxCalls
  /\ \E protos \in AlpnArgs, oom \in BOOLEAN :
       \E r \in { SSL_ech_set_outer_alpn_protos(cl, protos, Len(protos.data),
                                                oom) } :
         cl' = AfterCall("set_outer_alpn", protos, r, "done")
  /\ UNCHANGED << storevars, alloc, conn, wire, srv, hpke_sealed, status, ac,
                  pc >>

ApiNext ==
  \/ EchServerName
  \/ SetOuterServerName
  \/ CtxSetOuterServerName
  \/ EchFree
  \/ SetGreaseSuite
  \/ SendGrease
  \/ CtxSetOuterAlpn
  \/ SetOuterAlpn

ApiSpec == ApiInit /\ [][ApiNext]_vars

(***************************************************************************)
(* Ownership: the blocks the key store of a context owns, the copy         *)
(* SSL_ECH_dup makes of them for a connection, and the calls that free     *)
(* either                                                                  *)
(***************************************************************************)

\* allocation batches are numbered 1..MaxBatch
MaxBatch == 5

\* a pointer is NULL or names the block it points into: the batch of the
\* allocation and the field the block was allocated for
NULL == << 0, "NULL" >>
Block(n, f) == << n, f >>

\* OPENSSL_malloc of the blocks ids
Malloc(a, ids) == [ a EXCEPT !.live = @ \cup ids ]

\* OPENSSL_free(p); to free a block that is not live is a double free
OPENSSL_free(a, p) ==
  IF p = NULL THEN a
  ELSE IF p \in a.live THEN [ a EXCEPT !.live = @ \ { p } ]
  ELSE [ a EXCEPT !.faults = @ \cup { "double_free" } ]

\* a read through p; to read a block that is not live is a dangling read
Deref(a, p) ==
  IF p \in a.live THEN a ELSE [ a EXCEPT !.faults = @ \cup { "dangling" } ]

\* OPENSSL_free of each pointer of ps that is not NULL, in order: a pointer
\* that is not live, or that occurs earlier in ps, is freed twice
FreeSeq(a, ps) ==
  With({ i \in 1..Len(ps) :
           /\ ps[i] # NULL
           /\ \/ ps[i] \notin a.live
              \/ \E j \in 1..(i - 1) : ps[j] = ps[i] }, LAMBDA twice :
    [ a EXCEPT !.live = @ \ { ps[i] : i \in 1..Len(ps) },
               !.faults = IF twice = {} THEN @ ELSE @ \cup { "double_free" } ])

\* EVP_PKEY_up_ref(k)
EVP_PKEY_up_ref(a, k) == [ a EXCEPT !.refs[k] = @ + 1 ]

\* EVP_PKEY_free(k): the key goes when its last reference does
EVP_PKEY_free(a, k) ==
  IF k = NULL THEN a
  ELSE IF k \notin a.live THEN [ a EXCEPT !.faults = @ \cup { "double_free" } ]
  ELSE IF a.refs[k] = 1 THEN [ a EXCEPT !.live = @ \ { k }, !.refs[k] = 0 ]
  ELSE [ a EXCEPT !.refs[k] = @ - 1 ]

\* an ECHConfig after memset(0)
ZeroConfig ==
  [ pub |-> NULL, pub_len |-> 0, public_name |-> NULL, public_name_len |-> 0,
    ciphersuites |-> NULL, nsuites |-> 0, nexts |-> 0, exttypes |-> NULL,
    extlens |-> NULL, exts |-> NULL, ext |-> << >>,
    encoding_start |-> [ blk |-> NULL, off |-> 0 ], encoding_length |-> 0 ]

\* an SSL_ECH after memset(0)
ZeroEntry ==
  [ cfg |-> NULL, encoded |-> NULL, encoded_len |-> 0, nrecs |-> 0,
    recs |-> NULL, rec |-> << >>, inner_name |-> NULL, outer_name |-> NULL,
    pemfname |-> NULL, keyshare |-> NULL ]

\* the ECHConfig that ECHConfigs_from_binary builds in batch n for a config
\* of one suite and nexts extensions: every array is a block of its own,
\* encoding_start points into the buffer that becomes cfg->encoded
DecodedConfig(n, nexts) ==
  [ pub |-> Block(n, "pub"), pub_len |-> 32,
    public_name |-> Block(n, "public_name"), public_name_len |-> 3,
    ciphersuites |-> Block(n, "ciphersuites"), nsuites |-> 1,
    nexts |-> nexts,
    exttypes |-> IF nexts > 0 THEN Block(n, "exttypes") ELSE NULL,
    extlens |-> IF nexts > 0 THEN Block(n, "extlens") ELSE NULL,
    exts |-> IF nexts > 0 THEN Block(n, "exts") ELSE NULL,
    ext |-> IF nexts > 0 THEN << Block(n, "exts[0]") >> ELSE << >>,
    encoding_start |-> [ blk |-> Block(n, "encoded"), off |-> 2 ],
    encoding_length |-> 54 + 5 * nexts ]

\* the SSL_ECH that ech_readpemfile returns in batch n
LoadedEntry(n, nexts) ==
  [ cfg |-> Block(n, "cfg"), encoded |-> Block(n, "encoded"),
    encoded_len |-> 56 + 5 * nexts, nrecs |-> 1,
    recs |-> Block(n, "recs"), rec |-> << DecodedConfig(n, nexts) >>,
    inner_name |-> NULL, outer_name |-> NULL,
    pemfname |-> Block(n, "pemfname"), keyshare |-> Block(n, "keyshare") ]

\* the pointers of a record that the record owns after it was built
ConfigBlocks(ec) ==
  ({ ec.pub, ec.public_name, ec.ciphersuites, ec.exttypes, ec.extlens,
     ec.exts } \cup { ec.ext[j] : j \in DOMAIN ec.ext }) \ { NULL }
EntryBlocks(e) ==
  ({ e.cfg, e.encoded, e.recs, e.inner_name, e.outer_name, e.pemfname }
   \cup UNION { ConfigBlocks(e.rec[i]) : i \in DOMAIN e.rec }) \ { NULL }

\* ECHConfig_free(tbf)
ECHConfig_free(a, tbf) ==
  With(FreeSeq(a, << tbf.public_name, tbf.pub, tbf.ciphersuites,
                     tbf.exttypes, tbf.extlens >>), LAMBDA a1 :
    With(IF tbf.nexts # 0 THEN Deref(a1, tbf.exts) ELSE a1, LAMBDA a2 :
      OPENSSL_free(FreeSeq(a2, tbf.ext), tbf.exts)))

RECURSIVE ConfigsFreeLoop(_, _, _)
ConfigsFreeLoop(a, rec, i) ==
  IF i > Len(rec) THEN a
  ELSE ConfigsFreeLoop(ECHConfig_free(a, rec[i]), rec, i + 1)

\* ECHConfigs_free(tbf)
ECHConfigs_free(a, e) ==
  OPENSSL_free(ConfigsFreeLoop(OPENSSL_free(a, e.encoded), e.rec, 1), e.recs)

\* SSL_ECH_free(tbf): the allocator afterwards; the entry itself is zeroed
SSL_ECH_free(a, e) ==
  With(IF e.cfg # NULL THEN OPENSSL_free(ECHConfigs_free(a, e), e.cfg)
       ELSE a, LAMBDA a1 :
    With(FreeSeq(a1, << e.inner_name, e.outer_name, e.pemfname >>),
         LAMBDA a2 : EVP_PKEY_free(a2, e.keyshare)))

\* ech_len_field_dup(old, len) into batch n: NULL for an empty field
ech_len_field_dup(old, len, n) ==
  IF old = NULL \/ len = 0 THEN NULL ELSE Block(n, old[2])

\* ECHFDUP: the field of new after the macro
ECHFDUP(old, len, n) ==
  IF len # 0 THEN ech_len_field_dup(old, len, n) ELSE old

\* ECHConfig_dup(old, new): *new=*old, then pub, public_name and
\* ciphersuites are copied into batch n
ECHConfig_dup(old, n) ==
  [ old EXCEPT !.pub = ECHFDUP(old.pub, old.pub_len, n),
               !.public_name = ECHFDUP(old.public_name,
                                       old.public_name_len, n),
               !.ciphersuites = IF old.ciphersuites # NULL
                                THEN Block(n, "ciphersuites") ELSE @ ]

\* ECHConfigs_dup(old, new) into batch n; the encoded_len of a stored
\* ECHConfigs is never 0
ECHConfigs_dup(old, n) ==
  [ encoded |-> IF old.encoded_len # 0
                THEN ech_len_field_dup(old.encoded, old.encoded_len, n)
                ELSE NULL,
    encoded_len |-> old.encoded_len,
    recs |-> Block(n, "recs"), nrecs |-> old.nrecs,
    rec |-> [ i \in 1..old.nrecs |-> ECHConfig_dup(old.rec[i], n) ] ]

\* one turn of the loop of SSL_ECH_dup: new_se[i] from orig[i], in batch n
DupEntry(o, n) ==
  With(ECHConfigs_dup(o, n), LAMBDA c :
    [ cfg |-> Block(n, "cfg"), encoded |-> c.encoded,
      encoded_len |-> c.encoded_len, nrecs |-> c.nrecs, recs |-> c.recs,
      rec |-> c.rec,
      inner_name |-> IF o.inner_name # NULL THEN Block(n, "inner_name")
                     ELSE NULL,
      outer_name |-> IF o.outer_name # NULL THEN Block(n, "outer_name")
                     ELSE NULL,
      pemfname |-> IF o.pemfname # NULL THEN Block(n, "pemfname") ELSE NULL,
      keyshare |-> o.keyshare ])

RECURSIVE UpRefLoop(_, _, _)
UpRefLoop(a, orig, i) ==
  IF i > Len(orig) THEN a
  ELSE UpRefLoop(IF orig[i].keyshare # NULL
                 THEN EVP_PKEY_up_ref(a, orig[i].keyshare) ELSE a,
                 orig, i + 1)

\* the blocks a copy was given: those of its own batch
NewBlocks(e, n) == { b \in EntryBlocks(e) : b[1] = n }

\* SSL_ECH_dup(orig, nech, ECH_SELECT_ALL): the array is batch a.next + 1,
\* its i-th element batch a.next + 1 + i
SSL_ECH_dup(orig, nech, a) ==
  With([ i \in 1..nech |-> DupEntry(orig[i], a.next + 1 + i) ], LAMBDA new_se :
    [ array |-> Block(a.next + 1, "array"), ech |-> new_se, nechs |-> nech,
      a |-> [ UpRefLoop(Malloc(a, { Block(a.next + 1, "array") } \cup
                UNION { NewBlocks(new_se[i], a.next + 1 + i) : i \in 1..nech }),
                        orig, 1)
              EXCEPT !.next = a.next + 1 + nech ] ])

\* ech_make_enc_info(tc, info, &info_len): the copy reads encoding_length
\* octets at encoding_start
ech_make_enc_info_read(a, tc) == Deref(a, tc.encoding_start.blk)

RECURSIVE FreeAllLoop(_, _, _, _)
\* for (i=0;i!=nechs;i++) SSL_ECH_free(&ech[i])
FreeAllLoop(a, ech, nechs, i) ==
  IF i > nechs THEN a
  ELSE FreeAllLoop(SSL_ECH_free(a, ech[i]), ech, nechs, i + 1)

\* no array of SSL_ECH
NoEch == [ array |-> NULL, ech |-> << >>, nechs |-> 0 ]

\* ECH_SELECT_ALL
ECH_SELECT_ALL == -1

\* a write to element i (0-based) of an array of n elements; outside the
\* array it is a heap overflow
WriteElem(a, i, n) ==
  IF i >= 0 /\ i < n THEN a ELSE [ a EXCEPT !.faults = @ \cup { "overflow" } ]

\* SSL_ECH_dup(orig, nech, selector): [array, ech, nechs, a], array NULL
\* when the call returns NULL.  With a selector the array has one element
\* and the loop writes element selector of it.
SSL_ECH_dup_selector(orig, nech, selector, a) ==
  IF selector # ECH_SELECT_ALL /\ selector < 0 THEN NoEch @@ [ a |-> a ]
  ELSE IF selector = ECH_SELECT_ALL THEN SSL_ECH_dup(orig, nech, a)
  ELSE IF selector >= nech THEN NoEch @@ [ a |-> a ]
  ELSE With(DupEntry(orig[selector + 1], a.next + 2), LAMBDA e :
         [ array |-> Block(a.next + 1, "array"),
           ech |-> IF selector = 0 THEN << e >> ELSE << ZeroEntry >>,
           nechs |-> 1,
           a |-> [ WriteElem(
                     Malloc(IF orig[selector + 1].keyshare # NULL
                            THEN EVP_PKEY_up_ref(a, orig[selector + 1].keyshare)
                            ELSE a,
                            { Block(a.next + 1, "array") }
                            \cup NewBlocks(e, a.next + 2)),
                     selector, 1)
                   EXCEPT !.next = a.next + 2 ] ])

\* the block SSL_ech_reduce allocates for the entry it keeps
ReducedBlock(array) == Block(array[1], "reduced")

\* what may lie in the SSL_ECH sized memory behind the array
BehindArray == { ZeroEntry } \cup { ctx.ech[i] : i \in 1..ctx.nechs }

\* the index test of SSL_ech_reduce: does it turn the index down
ReduceIndexTest(nechs, index) == (nechs + 1) < index

\* SSL_ech_reduce(s, index) on the array c of the connection, behind
\* what the memory behind the array holds: [rv, conn, a]
SSL_ech_reduce(c, index, behind, a) ==
  LET fail == [ rv |-> 0, conn |-> c, a |-> a ]
      new == ReducedBlock(c.array)
      inside == index < c.nechs
      kept == IF inside THEN c.ech[index + 1] ELSE behind
      zapped == IF inside THEN [ c.ech EXCEPT ![index + 1] = ZeroEntry ]
                ELSE c.ech
  IN IF index < 0 THEN fail
     ELSE IF c.array = NULL THEN fail
     ELSE IF c.nechs <= 0 THEN fail
     ELSE IF ReduceIndexTest(c.nechs, index) THEN fail
     ELSE [ rv |-> 1,
            conn |-> [ array |-> new, ech |-> << kept >>, nechs |-> 1 ],
            a |-> OPENSSL_free(
                    FreeAllLoop(WriteElem(Malloc(a, { new }), index, c.nechs),
                                zapped, c.nechs, 1),
                    c.array) ]

OwnInit ==
  /\ ctx = NoEch
  /\ conn = NoEch
  /\ alloc = [ live |-> {}, next |-> 0, faults |-> {},
               refs |-> [ k \in { Block(n, "keyshare") : n \in 1..(MaxBatch + 1) }
                          |-> 0 ] ]
  /\ now = 0
  /\ mtime = [ f \in PemFiles |-> 0 ]
  /\ lastop = NoOp
  /\ cl = NoClient
  /\ wire = NoWire
  /\ srv = NoSrv
  /\ hpke_sealed = {}
  /\ status = "none"
  /\ ac = NoAc
  /\ pc = "own"

\* after undefined behaviour the process aborts or goes on
AfterFaults(a) == IF a.faults # alloc.faults THEN { "aborted", "own" } ELSE { "own" }

\* SSL_CTX_ech_server_enable of one more file: the array grows by the
\* SSL_ECH that ech_readpemfile returned, with or without an extension
CtxLoad ==
  /\ pc = "own"
  /\ ctx.nechs < MaxKeys
  /\ alloc.next < MaxBatch
  /\ \E nexts \in { 0, 1 } :
       \E n \in { alloc.next + 1 } : \E e \in { LoadedEntry(n, nexts) } :
         /\ ctx' = [ array |-> Block(n, "array"),
                     ech |-> Append(ctx.ech, e), nechs |-> ctx.nechs + 1 ]
         /\ alloc' = [ Malloc(OPENSSL_free(alloc, ctx.array),
                              EntryBlocks(e) \cup { e.keyshare,
                                                    Block(n, "array") })
                       EXCEPT !.next = n, !.refs[e.keyshare] = 1 ]
  /\ UNCHANGED << now, mtime, lastop, conn, hsvars, ac, pc >>

\* SSL_new: the connection gets SSL_ECH_dup of the array of its context
SslNew ==
  /\ pc = "own"
  /\ conn = NoEch
  /\ ctx.nechs > 0
  /\ alloc.next + 1 + ctx.nechs <= MaxBatch
  /\ \E r \in { SSL_ECH_dup(ctx.ech, ctx.nechs, alloc) } :
       /\ conn' = [ array |-> r.array, ech |-> r.ech, nechs |-> r.nechs ]
       /\ alloc' = r.a
  /\ UNCHANGED << storevars, hsvars, ac, pc >>

\* SSL_CTX_ech_server_flush_keys(ctx, 0)
CtxFlush ==
  /\ pc = "own"
  /\ ctx.nechs > 0
  /\ \E a \in { OPENSSL_free(SSL_ECH_free(alloc, ctx.ech[1]), ctx.array) } :
       /\ alloc' = a
       /\ pc' \in AfterFaults(a)
  /\ ctx' = NoEch
  /\ UNCHANGED << now, mtime, lastop, conn, hsvars, ac >>

\* the reload of SSL_CTX_svcb_add: every element is freed, then the array
CtxFreeAll ==
  /\ pc = "own"
  /\ ctx.nechs > 0
  /\ \E a \in { OPENSSL_free(FreeAllLoop(alloc, ctx.ech, ctx.nechs, 1),
                             ctx.array) } :
       /\ alloc' = a
       /\ pc' \in AfterFaults(a)
  /\ ctx' = NoEch
  /\ UNCHANGED << now, mtime, lastop, conn, hsvars, ac >>

\* the connection is freed: every element of its array, then the array
ConnFreeAll ==
  /\ pc = "own"
  /\ conn.nechs > 0
  /\ \E a \in { OPENSSL_free(FreeAllLoop(alloc, conn.ech, conn.nechs, 1),
                             conn.array) } :
       /\ alloc' = a
       /\ pc' \in AfterFaults(a)
  /\ conn' = NoEch
  /\ UNCHANGED << storevars, hsvars, ac >>

\* the connection receives a ClientHello with ECH and builds the HPKE info
\* from a config of its copy
ConnMakeEncInfo ==
  /\ pc = "own"
  /\ conn.nechs > 0
  /\ \E i \in { j \in 1..conn.nechs : conn.ech[j].cfg # NULL } :
       \E a \in { ech_make_enc_info_read(alloc, conn.ech[i].rec[1]) } :
         /\ alloc' = a
         /\ pc' \in AfterFaults(a)
  /\ UNCHANGED << storevars, conn, hsvars, ac >>

\* SSL_ECH_dup with a selector, for a connection that is to hold one entry
\* or all entries of the array of its context
ConnDupSelect ==
  /\ pc = "own"
  /\ conn = NoEch
  /\ ctx.nechs > 0
  /\ alloc.next + 1 + ctx.nechs <= MaxBatch
  /\ \E selector \in (-2)..ctx.nechs :
       \E r \in { SSL_ECH_dup_selector(ctx.ech, ctx.nechs, selector, alloc) } :
         /\ conn' = [ array |-> r.array, ech |-> r.ech, nechs |-> r.nechs ]
         /\ alloc' = r.a
         /\ lastop' = [ op |-> "dup", selector |-> selector,
                        rv |-> r.array, next |-> alloc.next ]
         /\ pc' \in AfterFaults(r.a)
  /\ UNCHANGED << ctx, now, mtime, hsvars, ac >>

\* SSL_ech_reduce on the connection, once for each array it is given
ConnReduce ==
  /\ pc = "own"
  /\ conn.array # ReducedBlock(conn.array)
  /\ \E index \in (-1)..(conn.nechs + 2), behind \in BehindArray :
       \E r \in { SSL_ech_reduce(conn, index, behind, alloc) } :
         /\ conn' = r.conn
         /\ alloc' = r.a
         /\ lastop' = [ op |-> "reduce", index |-> index, rv |-> r.rv,
                        array |-> r.conn.array ]
         /\ pc' \in AfterFaults(r.a)
  /\ UNCHANGED << ctx, now, mtime, hsvars, ac >>

OwnNext ==
  \/ CtxLoad
  \/ SslNew
  \/ CtxFlush
  \/ CtxFreeAll
  \/ ConnFreeAll
  \/ ConnMakeEncInfo
  \/ ConnDupSelect
  \/ ConnReduce

OwnSpec == OwnInit /\ [][OwnNext]_vars

(***************************************************************************)
(* SSL_ech_get_status on every combination of the flags of a connection    *)
(***************************************************************************)

StatusInit ==
  /\ \E isnull \in BOOLEAN, backend \in { 0, 1 }, attempted \in { 0, 1 },
        success \in { 0, 1 }, verify_ok \in BOOLEAN,
        grease \in { ECH_GREASE_UNKNOWN, ECH_NOT_GREASE, ECH_IS_GREASE } :
       conn = [ SSL_new(EmptyCtx, FALSE) EXCEPT
                  !.isnull = isnull, !.ech_backend = backend,
                  !.ech_attempted = attempted, !.ech_success = success,
                  !.ech_grease = grease, !.verify_ok = verify_ok ]
  /\ ctx = EmptyCtx
  /\ now = 0
  /\ mtime = [ f \in PemFiles |-> 0 ]
  /\ lastop = NoOp
  /\ alloc = NoHeap
  /\ cl = NoClient
  /\ wire = NoWire
  /\ srv = NoSrv
  /\ hpke_sealed = {}
  /\ status = "none"
  /\ ac = NoAc
  /\ pc = "flags"

\* the application asks for the status
StatusOfFlags ==
  /\ pc = "flags"
  /\ status' = SSL_ech_get_status(conn)
  /\ pc' = "status"
  /\ UNCHANGED << storevars, alloc, conn, cl, wire, srv, hpke_sealed, ac >>

StatusNext == StatusOfFlags

StatusSpec == StatusInit /\ [][StatusNext]_vars

(***************************************************************************)
(* Properties                                                              *)
(***************************************************************************)

\* offset of the first extension of the ClientHello body ch
FirstExtOffset(ch) ==
  LET g == 2 + SSL3_RANDOM_SIZE + 1 + At(ch, 2 + SSL3_RANDOM_SIZE)
  IN g + 2 + Rd16(ch, g) + 2 + 2

RECURSIVE ExtValue(_, _, _)
\* the first extension of the given type at or after offset off
ExtValue(ch, off, type) ==
  IF off + 4 > Len(ch) THEN [ found |-> FALSE, value |-> << >> ]
  ELSE IF Rd16(ch, off) = type
  THEN [ found |-> TRUE, value |-> Slice(ch, off + 4, Rd16(ch, off + 2)) ]
  ELSE ExtValue(ch, off + 4 + Rd16(ch, off + 2), type)

RECURSIVE ExtsWithout(_, _, _)
\* the extensions at or after offset off, the ones of the given type left out
ExtsWithout(ch, off, type) ==
  IF off + 4 > Len(ch) THEN << >>
  ELSE (IF Rd16(ch, off) = type THEN << >>
        ELSE Slice(ch, off, 4 + Rd16(ch, off + 2)))
       \o ExtsWithout(ch, off + 4 + Rd16(ch, off + 2), type)

\* the ECH extension of the ClientHello the server received
WireEch == ExtValue(wire.ch, FirstExtOffset(wire.ch), TLSEXT_TYPE_ech)

\* an ECH value with every field whole and every length within its maximum
\* and within the extension
EchWellFormed(b) ==
  /\ Len(b) >= 7
  /\ Rd16(b, 5) <= MAX_ECH_ENC_LEN
  /\ 7 + Rd16(b, 5) + 2 <= Len(b)
  /\ Rd16(b, 7 + Rd16(b, 5)) <= MAX_ECH_PAYLOAD_LEN
  /\ 9 + Rd16(b, 5) + Rd16(b, 7 + Rd16(b, 5)) <= Len(b)

WireEchValid == WireEch.found /\ EchWellFormed(WireEch.value)

\* the AAD of the received ClientHello as section 4.4 of the spec defines
\* it: the ECH fields, then the ClientHello without its ECH extension
WireAad ==
  LET b == WireEch.value
      f == FirstExtOffset(wire.ch)
      exts == ExtsWithout(wire.ch, f, TLSEXT_TYPE_ech)
      outer == Slice(wire.ch, 0, f - 2) \o U16(Len(exts)) \o exts
  IN Slice(b, 0, 7 + Rd16(b, 5)) \o U24(Len(outer)) \o outer

\* HPKE open of the received payload succeeds under the stored key i
KeyOpens(i) ==
  LET b == WireEch.value
      enc_len == Rd16(b, 5)
  IN hpke_dec(hpke_sealed,
              [ kem_id |-> conn.ech[i].cfg[1].kem_id, kdf_id |-> Rd16(b, 0),
                aead_id |-> Rd16(b, 2) ],
              conn.ech[i].keyshare, Slice(b, 7, enc_len),
              Slice(b, 9 + enc_len, Rd16(b, 7 + enc_len)), WireAad,
              ech_make_enc_info(conn.ech[i].cfg[1])).rv = 1

\* the stored key i is the first whose config_id is the received one
FirstIdMatch(i) ==
  /\ conn.ech[i].cfg[1].config_id = At(WireEch.value, 4)
  /\ \A h \in 1..(i - 1) : conn.ech[h].cfg[1].config_id # At(WireEch.value, 4)

\* the server's store holds the key pair of the config the client used
ClientKeyStored ==
  \E i \in 1..conn.nechs : conn.ech[i].cfg[1] = cl.cfgs[cl.tc]

\* C1: when the client sealed with config C, the server's store holds the
\* key pair of C and the server receives the client's ClientHello byte for
\* byte, ech_early_decrypt ends with ech_success = 1 and its plaintext is
\* the encoded inner ClientHello of the client.
C1_RoundTrip ==
  (pc = "decrypted" /\ wire.kind = "exact" /\ ClientKeyStored)
    => /\ conn.ech_success = 1
       /\ conn.encoded_innerch = cl.encoded_innerch

\* the present extensions of raws whose type is in the list p are
\* consecutive among the present extensions
Consecutive(raws, p) ==
  LET t == PresentTypes(raws)
      pos == { i \in 1..Len(t) : InOuterOnly(t[i], p) }
  IN \A i, j \in pos : \A h \in i..j : h \in pos

\* the received ClientHello carries every type of p
OuterCarries(p) ==
  \A i \in 1..Len(p) :
    ExtValue(wire.ch, FirstExtOffset(wire.ch), p[i]).found

\* the received ClientHello carries every type of p with the value raws has
OuterCarriesSame(raws, p) ==
  \A i \in 1..Len(raws) :
    (raws[i].present /\ InOuterOnly(raws[i].type, p))
      => ExtValue(wire.ch, FirstExtOffset(wire.ch), raws[i].type)
           = [ found |-> TRUE, value |-> raws[i].data ]

\* the server decoded the inner ClientHello the client encoded
InnerDecoded ==
  /\ pc = "decrypted"
  /\ wire.kind = "exact"
  /\ conn.ech_success = 1
  /\ Len(cl.outer_only) <= ECH_OUTERS_MAX

\* C2 as stated: for every inner ClientHello and every set P of compressed
\* types, ech_decode_inner of the output of ech_encode_inner, with an outer
\* ClientHello that carries every extension of P, gives back the inner
\* ClientHello with the session id of the outer one, its extensions in the
\* original order and all lengths right.
C2_AnyCompression ==
  (InnerDecoded /\ OuterCarries(cl.outer_only))
    => /\ srv.rv = 1
       /\ conn.innerch = InnerHello(cl.raws, cl.sid)

\* C2 amended: the same, for every P whose extensions are consecutive in the
\* inner ClientHello and which the outer ClientHello carries with the same
\* values.
C2_ConsecutiveCompression ==
  (/\ InnerDecoded
   /\ Consecutive(cl.raws, cl.outer_only)
   /\ OuterCarriesSame(cl.raws, cl.outer_only))
    => /\ srv.rv = 1
       /\ conn.innerch = InnerHello(cl.raws, cl.sid)

\* two consecutive extensions were compressed and the inner ClientHello came
\* back whole
C2_Witness ==
  /\ InnerDecoded
  /\ cl.outer_only = << TLSEXT_TYPE_supported_groups,
                        TLSEXT_TYPE_signature_algorithms >>
  /\ cl.sid # << >>
  /\ conn.innerch = InnerHello(cl.raws, cl.sid)

\* C3: if the stored key at position j is the first whose config_id is the
\* received one and HPKE open succeeds under it, that key is the one tried
\* and the connection ends with ech_success = 1 and ECH_NOT_GREASE.
C3_FirstMatchAnywhere ==
  \A j \in 1..conn.nechs :
    (pc = "decrypted" /\ WireEchValid /\ FirstIdMatch(j) /\ KeyOpens(j))
      => /\ srv.tried = << j - 1 >>
         /\ conn.ech_success = 1
         /\ conn.ech_grease = ECH_NOT_GREASE

\* C4: with trial decryption enabled, ech_early_decrypt ends with
\* ech_success = 1 whenever some stored key opens the payload.
C4_TrialTriesEveryKey ==
  (/\ pc = "decrypted"
   /\ conn.trial
   /\ WireEchValid
   /\ \E i \in 1..conn.nechs : KeyOpens(i))
    => conn.ech_success = 1

\* C5: when the received ECH extension is well formed and no tried key
\* opens the payload, ech_early_decrypt returns 1 with no alert, with
\* ECH_IS_GREASE, ech_success = 0 and ech_done = 1, and SSL_ech_get_status
\* then reports GREASE.
C5_FailureIsGrease ==
  (/\ pc \in { "decrypted", "done" }
   /\ WireEchValid
   /\ \A i \in 1..Len(srv.tried) : ~KeyOpens(srv.tried[i] + 1))
    => /\ srv.rv = 1
       /\ srv.alert = "none"
       /\ conn.ech_grease = ECH_IS_GREASE
       /\ conn.ech_success = 0
       /\ conn.ech_done = 1
       /\ pc = "done" => status = SSL_ECH_STATUS_GREASE

\* C6: a structural error in the received ECH extension makes
\* ech_early_decrypt return 0 with a decode_error alert; the connection is
\* not marked GREASE and no key is tried.
C6_StructuralErrorIsFatal ==
  (pc = "decrypted" /\ WireEch.found /\ ~EchWellFormed(WireEch.value))
    => /\ srv.rv = 0
       /\ srv.alert = "decode_error"
       /\ conn.ech_grease # ECH_IS_GREASE
       /\ srv.tried = << >>

\* does the configuration offer a suite hpke_suite_check accepts
Compatible(cfg) ==
  \E i \in 1..Len(cfg.ciphersuites) :
    hpke_suite_check([ kem_id |-> cfg.kem_id,
                       kdf_id |-> cfg.ciphersuites[i].kdf,
                       aead_id |-> cfg.ciphersuites[i].aead ]) = 1

\* the least member of a non-empty set of numbers
Least(S) == CHOOSE i \in S : \A j \in S : i <= j

\* the position C8 names: the first compatible config whose public_name is
\* the outer_name that was supplied, if there is one, else the first
\* compatible config; 0 if no config is compatible
ExpectedConfig(cfgs, outer_name) ==
  LET ok == { i \in 1..Len(cfgs) : Compatible(cfgs[i]) }
      named == { i \in ok : outer_name.set
                            /\ cfgs[i].public_name = outer_name.name }
  IN IF named # {} THEN Least(named)
     ELSE IF ok # {} THEN Least(ok)
     ELSE 0

\* C8: ech_aad_and_encrypt selects the first compatible config whose
\* public_name is the supplied outer_name when there is one, and otherwise
\* the first compatible config of the list.
C8_ConfigSelection ==
  pc \in { "sent", "failed" }
    => cl.tc = ExpectedConfig(cl.cfgs, cl.outer_name)

\* the keys of a store that were loaded more than age seconds before t
NotOlderThan(keys, age, t) ==
  SelectSeq(keys, LAMBDA e : ~(t - e.loadtime > age))

\* C9: SSL_CTX_ech_server_flush_keys with age > 0 removes exactly the keys
\* with now - loadtime > age and keeps the others, unchanged and in order.
C9_FlushByAge ==
  (lastop.op = "flush" /\ lastop.age > 0)
    => Keys(ctx) = NotOlderThan(lastop.before, lastop.age, lastop.now)

\* C10: SSL_CTX_ech_server_flush_keys with age <= 0 leaves the store empty:
\* SSL_CTX_ech_server_key_status reports 0 keys, and a handshake on the
\* store uses no key.
C10_FlushAll ==
  /\ (lastop.op = "flush" /\ lastop.age <= 0)
       => /\ Keys(ctx) = << >>
          /\ SSL_CTX_ech_server_key_status(ctx) = 0
          /\ \A k \in KeyIds : \A o \in HandshakeOutcomes(ctx, k) :
               o.success = 0 /\ o.used = << >>
  /\ (lastop.op = "handshake" /\ SSL_CTX_ech_server_key_status(ctx) = 0)
       => lastop.hs.success = 0 /\ lastop.hs.used = << >>

\* the positions of the file name f among the keys
NamePositions(keys, f) == { i \in 1..Len(keys) : keys[i].pemfname = f }

\* C11: SSL_CTX_ech_server_enable with a file name that is in the store
\* keeps the number and the position of the keys: with an mtime not later
\* than the load time the store is unchanged, with a later one only the
\* entry of that file is replaced, in place; a file name that is not in the
\* store is appended as the new last entry.
C11_EnableInPlace ==
  (lastop.op = "enable" /\ lastop.file \in PemFiles)
    => LET b == lastop.before
           f == lastop.file
           hits == NamePositions(b, f)
           fresh == [ cfg |-> << ServerConfig(KeyOfFile(f)) >>, pemfname |-> f,
                      loadtime |-> lastop.now, keyshare |-> KeyOfFile(f) ]
       IN IF hits = {} THEN Keys(ctx) = Append(b, fresh)
          ELSE /\ Len(Keys(ctx)) = Len(b)
               /\ \A i \in 1..Len(b) :
                    Keys(ctx)[i] = IF i \in hits /\ b[i].loadtime < mtime[f]
                                   THEN fresh ELSE b[i]

\* the first of two stored keys was loaded again, in place, after its file
\* had been rewritten
C11_Witness ==
  /\ lastop.op = "enable"
  /\ Len(lastop.before) >= 2
  /\ lastop.before[1].pemfname = lastop.file
  /\ lastop.before[1].loadtime < mtime[lastop.file]
  /\ Keys(ctx)[1].loadtime = lastop.now
  /\ Keys(ctx)[2] = lastop.before[2]

\* C12: SSL_CTX_ech_server_enable_buffer with a well-formed buffer that is
\* not in the store returns 1 and appends one key, so that the key count
\* goes up by one.
C12_BufferAppends ==
  (lastop.op = "enable_buffer"
   /\ NamePositions(lastop.before, AhHash(lastop.file)) = {})
    => /\ lastop.rv = 1
       /\ SSL_CTX_ech_server_key_status(ctx) = Len(lastop.before) + 1
       /\ SubSeq(Keys(ctx), 1, Len(lastop.before)) = lastop.before
       /\ Keys(ctx)[Len(Keys(ctx))].keyshare = KeyOfBuffer(lastop.file)

\* C13: after any sequence of key-store calls every stored key holds one
\* ECHConfig and a private key, and SSL_CTX_ech_server_key_status reports
\* the number of keys stored.
C13_StoreInvariant ==
  /\ ctx.isnull => ctx.nechs = 0
  /\ ctx.nechs <= Len(ctx.ech)
  /\ \A i \in 1..ctx.nechs :
       /\ Len(ctx.ech[i].cfg) = 1
       /\ ctx.ech[i].keyshare \in KeyIds
       /\ ctx.ech[i].pemfname # ""
  /\ SSL_CTX_ech_server_key_status(ctx) = Len(Keys(ctx))
  /\ lastop.op \in { "enable", "enable_buffer", "readpemdir" }
       => /\ Len(Keys(ctx)) >= Len(lastop.before)
          /\ \A i \in (Len(lastop.before) + 1)..Len(Keys(ctx)) :
               Keys(ctx)[i].loadtime = lastop.now

\* a flush by age took the first of three keys and kept the two loaded
\* after it
C13_Witness ==
  /\ lastop.op = "flush"
  /\ lastop.age > 0
  /\ Len(lastop.before) = 3
  /\ Len(Keys(ctx)) = 2
  /\ Keys(ctx) = Tail(lastop.before)

\* a store of three keys was flushed with age 0
C10_Witness ==
  /\ lastop.op = "flush"
  /\ lastop.age <= 0
  /\ Len(lastop.before) = 3
  /\ Keys(ctx) = << >>

Supported(l) ==
  SelectSeq(l, LAMBDA it : it.version \in { ECH_DRAFT_09_VERSION,
                                            ECH_DRAFT_10_VERSION })

\* the decoded config ec has the fields the item it was published with
MatchesItem(ec, it) ==
  /\ ec.version = it.version
  /\ ec.config_id = IF it.version = ECH_DRAFT_10_VERSION
                    THEN ConfigIdOf(it.k) ELSE 0
  /\ ec.kem_id = HPKE_KEM_ID_25519
  /\ ec.pub = PubOf(it.k)
  /\ ec.public_name = NameOfKey(it.k)
  /\ ec.maximum_name_length = 64
  /\ ec.nsuites * 4 = Len(it.suites)
  /\ ec.ciphersuites = [ i \in 1..ec.nsuites |-> SubSeq(it.suites, 4 * i - 3, 4 * i) ]

\* the ECHConfigs record er holds the supported configs of the list l, in
\* list order
HoldsList(er, l) ==
  /\ er.nrecs = Len(Supported(l))
  /\ Len(er.recs) = er.nrecs
  /\ \A i \in 1..er.nrecs : MatchesItem(er.recs[i], Supported(l)[i])

\* the value is a concatenation of well-formed lists of supported configs
PlainLists(d) ==
  /\ d.kind = "bin" /\ d.garbage = 0 /\ d.short = 0
  /\ \A i \in 1..Len(d.lists) :
       \A j \in 1..Len(d.lists[i]) : d.lists[i][j] \in GoodItems

\* C14: for a concatenation of k >= 1 ECHConfigLists, ECHConfigs_from_binary
\* leaves as leftover exactly the octets after the first list, and
\* local_ech_add returns k entries, entry i holding the configs of list i.
C14_Concatenation ==
  /\ (cl.call.op = "from_binary" /\ PlainLists(cl.desc))
       => /\ cl.call.r.ok
          /\ cl.call.r.leftover
               = Len(cl.input) - Len(EncodeList(cl.desc.lists[1], 0, 0))
  /\ (cl.call.op = "ech_add" /\ cl.call.fmt = ECH_FMT_BIN
        /\ PlainLists(cl.desc))
       => /\ cl.call.r.rv = 1
          /\ cl.call.r.num_echs = Len(cl.desc.lists)
          /\ \A i \in 1..Len(cl.desc.lists) :
               HoldsList(cl.call.r.echs[i].cfg, cl.desc.lists[i])

\* a single well-formed list decodes, on its own and through local_ech_add
SingleListDecodes ==
  /\ (cl.call.op = "from_binary" /\ PlainLists(cl.desc))
       => /\ cl.call.r.ok
          /\ cl.call.r.leftover
               = Len(cl.input) - Len(EncodeList(cl.desc.lists[1], 0, 0))
          /\ HoldsList(cl.call.r, cl.desc.lists[1])
  /\ (cl.call.op = "ech_add" /\ cl.call.fmt \in { ECH_FMT_BIN, ECH_FMT_GUESS }
        /\ PlainLists(cl.desc) /\ Len(cl.desc.lists) = 1)
       => /\ cl.call.r.rv = 1
          /\ cl.call.r.num_echs = Len(cl.desc.lists)
          /\ \A i \in 1..Len(cl.desc.lists) :
               HoldsList(cl.call.r.echs[i].cfg, cl.desc.lists[i])

\* C15: ECHConfigs_from_binary succeeds only if the configs it parsed end
\* exactly where the declared total_length ends: neither before it (garbage
\* inside the declared length) nor after it (a config that overruns it).
C15_ExactCover ==
  (cl.call.op = "from_binary" /\ cl.call.r.ok)
    => Len(cl.input) - cl.call.r.leftover = 2 + Rd16(cl.input, 0)

\* C16: every ECHConfig returned has encoding_start at its version field and
\* encoding_length equal to its content_length + 4, so that the window is
\* the wire encoding of that one config.
C16_EncodingWindow ==
  (cl.call.op = "from_binary" /\ cl.call.r.ok)
    => \A i \in 1..cl.call.r.nrecs :
         LET ec == cl.call.r.recs[i]
         IN /\ Rd16(cl.input, ec.encoding_start) = ec.version
            /\ ec.encoding_length = Rd16(cl.input, ec.encoding_start + 2) + 4
            /\ PlainLists(cl.desc)
                 => Slice(cl.input, ec.encoding_start, ec.encoding_length)
                      = EncodeItem(Supported(cl.desc.lists[1])[i])

\* the octets of the cipher suites of item it are none or no multiple of 4
BadSuites(it) ==
  /\ it.version \in { ECH_DRAFT_09_VERSION, ECH_DRAFT_10_VERSION }
  /\ (Len(it.suites) = 0 \/ Len(it.suites) % 4 # 0)

ListWithUnknown(d) ==
  /\ d.kind = "bin" /\ d.garbage = 0 /\ d.short = 0
  /\ Len(d.lists) = 1
  /\ \A j \in 1..Len(d.lists[1]) : d.lists[1][j] \in GoodItems \cup UnknownItems
  /\ Len(EncodeItems(d.lists[1])) >= ECH_MIN_ECHCONFIG_LEN

\* C18: a config of unknown version is skipped by its content_length and
\* does not fail the decode; the result holds the draft-09 and draft-10
\* configs of the list, in list order, each parsed from its own offset.
C18_SkipUnknown ==
  (cl.call.op = "from_binary" /\ ListWithUnknown(cl.desc))
    => /\ cl.call.r.ok
       /\ HoldsList(cl.call.r, cl.desc.lists[1])
       /\ cl.call.r.leftover = 0

\* unknown configs whose contents are two octets or more are skipped
LongUnknownSkipped ==
  (/\ cl.call.op = "from_binary" /\ ListWithUnknown(cl.desc)
   /\ \A j \in 1..Len(cl.desc.lists[1]) :
        cl.desc.lists[1][j] \in UnknownItems => cl.desc.lists[1][j].ulen >= 2)
    => /\ cl.call.r.ok
       /\ HoldsList(cl.call.r, cl.desc.lists[1])

\* the octets b hold the octets needle somewhere
Contains(b, needle) ==
  \E i \in 0..(Len(b) - Len(needle)) : Slice(b, i, Len(needle)) = needle

\* the first class that matches: marker, hexadecimal, base64, binary
FirstClass(b) ==
  IF Contains(b, httpssvc_telltale) THEN ECH_FMT_HTTPSSVC
  ELSE IF \A i \in 1..Len(b) : b[i] \in AH_alphabet THEN ECH_FMT_ASCIIHEX
  ELSE IF \A i \in 1..Len(b) : b[i] \in B64_alphabet THEN ECH_FMT_B64TXT
  ELSE ECH_FMT_BIN

\* C19: ech_guess_fmt gives a non-empty input the first class that matches:
\* HTTPSSVC if the input holds "ech=", else ASCIIHEX if every octet is a
\* hexadecimal digit or ';', else B64TXT if every octet is a base64 digit,
\* ';' or '=', else BIN.
C19_GuessOrder ==
  (cl.call.op = "guess_fmt" /\ Len(cl.input) > 0)
    => /\ cl.call.r.rv = 1
       /\ cl.call.r.guessedfmt = FirstClass(cl.input)

\* a C string, a NUL after its last octet and none before, gets the first
\* class that matches
GuessOnStrings ==
  (/\ cl.call.op = "guess_fmt" /\ Len(cl.input) > 0
   /\ cl.tail[1] = 0
   /\ \A i \in 1..Len(cl.input) : cl.input[i] # 0)
    => /\ cl.call.r.rv = 1
       /\ cl.call.r.guessedfmt = FirstClass(cl.input)

\* the call hands over well-formed RData with an ech parameter in one of the
\* transports, and names the transport or leaves it to be guessed
SvcbCall(kind, rrfmt) ==
  /\ cl.call.op = "svcb_add"
  /\ cl.desc.kind = kind
  /\ cl.call.fmt \in { rrfmt, ECH_FMT_GUESS }
  /\ kind = "rdata_bin" \/ cl.tail[1] = 0

\* the call returned the configs of the list in the ech parameter
SvcbFound ==
  /\ cl.call.r.rv = 1
  /\ cl.call.r.num_echs >= 1
  /\ HoldsList(cl.call.r.echs[1].cfg, cl.desc.lists[1])

\* C20: local_svcb_add, given well-formed SVCB RData with an ech parameter
\* that carries a valid ECHConfigList, as binary, as ASCII-hex or as base64,
\* returns 1 with num_echs >= 1 and the configs of that list.
C20_SvcbTransports ==
  (\/ SvcbCall("rdata_bin", ECH_FMT_BIN)
   \/ SvcbCall("rdata_hex", ECH_FMT_ASCIIHEX)
   \/ SvcbCall("rdata_b64", ECH_FMT_B64TXT))
    => SvcbFound

\* the same for the two text transports alone
SvcbTextTransports ==
  (\/ SvcbCall("rdata_hex", ECH_FMT_ASCIIHEX)
   \/ SvcbCall("rdata_b64", ECH_FMT_B64TXT))
    => SvcbFound

\* the call made last was one of the two calls that set the outer name, and
\* it stored what it was given
SetterStored ==
  /\ cl.call.op \in { "server_name", "set_outer_server_name" }
  /\ cl.call.rv = 1
  /\ cl.call.outcome = "done"

Pointers(o) ==
  UNION { EntryBlocks(o.ech[i])
          \cup { o.ech[i].rec[j].encoding_start.blk :
                 j \in DOMAIN o.ech[i].rec } : i \in 1..o.nechs }

\* C22: the copy a connection holds shares no buffer with the store of its
\* context, every pointer of the copy (the encoding_start windows and the
\* extension arrays included) leads into a live block of the copy, and no
\* sequence of SSL_new, flush, reload and free ends in a double free or in a
\* read through a dangling pointer.
C22_CopyOwnsItsBuffers ==
  /\ alloc.faults = {}
  /\ pc = "own" => /\ Pointers(conn) \cap Pointers(ctx) = {}
                   /\ Pointers(conn) \subseteq alloc.live

\* ech_send_grease has written its extension into the packet
GreaseSent == cl.call.op = "send_grease" /\ cl.call.rv = 1

\* C23: when a suite was pinned with SSL_ech_set_grease_suite, the kdf_id and
\* the aead_id of the extension ech_send_grease writes are those of the
\* pinned suite.
C23_PinnedSuiteWritten ==
  (GreaseSent /\ cl.ech_grease_suite.ptr # "null") =>
    With(hpke_str2suite(cl.ech_grease_suite.str).suite, LAMBDA pinned :
      /\ Rd16(cl.pkt, 4) = pinned.kdf_id
      /\ Rd16(cl.pkt, 6) = pinned.aead_id)

\* C24: the extension ech_send_grease writes has the layout of the one
\* ech_aad_and_encrypt writes: the ECH type, a u16 length that covers the
\* rest, kdf_id, aead_id, one config_id octet, the u16-prefixed enc and the
\* u16-prefixed payload, the payload being 0x1D3 octets; ech_grease is then
\* ECH_IS_GREASE and SSL_ech_get_status reports GREASE.
C24_GreaseLayout ==
  GreaseSent =>
    With(ParseEch(Slice(cl.pkt, 4, Len(cl.pkt) - 4)), LAMBDA e :
      /\ Rd16(cl.pkt, 0) = TLSEXT_TYPE_ech
      /\ Rd16(cl.pkt, 2) = Len(cl.pkt) - 4
      /\ e.ok
      /\ Len(e.payload) = 467
      /\ cl.pkt = EchExt([ kdf_id |-> e.kdf_id, aead_id |-> e.aead_id ],
                         e.config_id, e.enc, e.payload)
      /\ cl.ech_grease = ECH_IS_GREASE
      /\ status = SSL_ECH_STATUS_GREASE)

\* a GREASE extension with a P-256 sized enc has been written
C24_Witness ==
  /\ GreaseSent
  /\ Rd16(cl.pkt, 9) = 65
  /\ Len(cl.pkt) = 4 + 7 + 65 + 2 + 467
  /\ status = SSL_ECH_STATUS_GREASE

\* the flags of a connection on which ECH was attempted, with an ECHConfig
\* or a key, that is not GREASE
AttemptedFlags ==
  /\ conn.ech_attempted = 1
  /\ ~conn.isnull
  /\ conn.ech_grease # ECH_IS_GREASE

\* C25 (as stated): the status is SUCCESS only when ECH was attempted,
\* ech_success is set, the connection is not GREASE and the certificate
\* verified; with ech_success set and the verification failed it is
\* BAD_NAME; with ECH attempted and configured and ech_success unset it is
\* FAILED; a connection flagged GREASE reports GREASE; every combination of
\* the flags has one status.
C25_StatusOfFlags ==
  pc = "status" =>
    /\ status \in { SSL_ECH_STATUS_BACKEND, SSL_ECH_STATUS_GREASE,
                    SSL_ECH_STATUS_SUCCESS, SSL_ECH_STATUS_FAILED,
                    SSL_ECH_STATUS_BAD_NAME, SSL_ECH_STATUS_NOT_TRIED,
                    SSL_ECH_STATUS_NOT_CONFIGURED }
    /\ status = SSL_ECH_STATUS_SUCCESS
         => AttemptedFlags /\ conn.ech_success = 1 /\ conn.verify_ok
    /\ (AttemptedFlags /\ conn.ech_success = 1 /\ ~conn.verify_ok)
         => status = SSL_ECH_STATUS_BAD_NAME
    /\ (AttemptedFlags /\ conn.ech_success = 0)
         => status = SSL_ECH_STATUS_FAILED
    /\ conn.ech_grease = ECH_IS_GREASE => status = SSL_ECH_STATUS_GREASE

\* C25 (amended): GREASE comes first and the backend flag second; SUCCESS,
\* BAD_NAME and FAILED are the statuses of a connection that is not GREASE,
\* not a backend, has an ECHConfig or a key and has attempted ECH, by
\* ech_success and the verify result.
C25_StatusOfFlagsBackend ==
  pc = "status" =>
    /\ status \in { SSL_ECH_STATUS_BACKEND, SSL_ECH_STATUS_GREASE,
                    SSL_ECH_STATUS_SUCCESS, SSL_ECH_STATUS_FAILED,
                    SSL_ECH_STATUS_BAD_NAME, SSL_ECH_STATUS_NOT_TRIED,
                    SSL_ECH_STATUS_NOT_CONFIGURED }
    /\ conn.ech_grease = ECH_IS_GREASE => status = SSL_ECH_STATUS_GREASE
    /\ (conn.ech_grease # ECH_IS_GREASE /\ conn.ech_backend # 0)
         => status = SSL_ECH_STATUS_BACKEND
    /\ status = SSL_ECH_STATUS_SUCCESS
         => /\ AttemptedFlags /\ conn.ech_backend = 0
            /\ conn.ech_success = 1 /\ conn.verify_ok
    /\ (AttemptedFlags /\ conn.ech_backend = 0)
         => status = IF conn.ech_success = 1
                     THEN IF conn.verify_ok THEN SSL_ECH_STATUS_SUCCESS
                          ELSE SSL_ECH_STATUS_BAD_NAME
                     ELSE SSL_ECH_STATUS_FAILED

\* the status of an attempted, successful ECH whose certificate did not
\* verify has been asked for
C25_Witness ==
  /\ pc = "status"
  /\ AttemptedFlags /\ conn.ech_backend = 0
  /\ conn.ech_success = 1 /\ ~conn.verify_ok
  /\ status = SSL_ECH_STATUS_BAD_NAME

\* C29: SSL_CTX_ech_set_outer_alpn_protos and SSL_ech_set_outer_alpn_protos
\* return 1 when they have stored the list they were given, and a value
\* other than 1 when they have not.
C29_AlpnReturn ==
  /\ cl.call.op = "set_outer_alpn"
       => (cl.call.rv = 1 <=> (cl.alpn_outer = cl.call.arg
                               /\ cl.alpn_outer_len = Len(cl.call.arg.data)))
  /\ cl.call.op = "ctx_set_outer_alpn"
       => (cl.call.rv = 1 <=> (ctx.alpn_outer = cl.call.arg
                               /\ ctx.alpn_outer_len = Len(cl.call.arg.data)))


\* C26: when the received ClientHello carries no ECH extension,
\* ech_early_decrypt returns 1 and leaves the ECH fields of the session
\* (ech_attempted, ech_done, ech_success, ech_grease, the stored session
\* id, outer_name, the encoded and the decoded inner ClientHello) as they
\* were on the new connection
C26_NoEchUntouched ==
  (pc \in { "decrypted", "done" } /\ wire.kind \in NoEchKinds)
    => /\ srv.rv = 1
       /\ conn = SSL_new(ctx, conn.trial)

\* the ECH fields are as they were whenever no ECH extension was received
C26_FieldsUntouched ==
  (pc \in { "decrypted", "done" } /\ wire.kind \in NoEchKinds)
    => conn = SSL_new(ctx, conn.trial)

\* a ClientHello without ECH extension was handled and returned 1
C26_Witness ==
  pc = "decrypted" /\ wire.kind = "no_ech" /\ srv.rv = 1


\* the step in which ech_early_decrypt ran HPKE open with at least one key
\* and no key opened the payload
FailedOpenStep ==
  /\ pc = "received"
  /\ pc' = "decrypted"
  /\ srv'.tried # << >>
  /\ conn'.ech_success = 0

\* C27: a failed HPKE open in ech_early_decrypt, with the key matched by
\* config_id or with trial keys, leaves the key store as it was: the keys,
\* configs and private-key handles of the context and of the connection are
\* the same before and after, nothing is freed, and the next handshake has
\* the same outcomes with every key
C27_FailedOpenKeepsStore ==
  [][FailedOpenStep =>
       /\ ctx' = ctx
       /\ conn'.ech = conn.ech
       /\ conn'.nechs = conn.nechs
       /\ conn'.isnull = conn.isnull
       /\ alloc' = alloc
       /\ \A k \in KeyIds :
            ech_early_decrypt(SSL_new(ctx', conn'.trial), hpke_sealed',
                              HonestHello(k).ch).rv
            = ech_early_decrypt(SSL_new(ctx, conn.trial), hpke_sealed,
                                HonestHello(k).ch).rv]_vars

\* a server with two keys tried HPKE open on a payload that no key opens
C27_Witness ==
  /\ pc = "decrypted"
  /\ srv.rv = 1
  /\ srv.tried # << >>
  /\ conn.ech_grease = ECH_IS_GREASE
  /\ conn.nechs = 2
  /\ conn.ech = SSL_new(ctx, conn.trial).ech


\* what ech_early_decrypt makes of the delivered ClientHello on a new
\* connection of the context
RawReference == ech_early_decrypt(SSL_new(ctx, conn.trial), hpke_sealed,
                                  wire.ch)

\* C28: SSL_CTX_ech_raw_decrypt returns 1 with decrypted_ok 1 and the inner
\* ClientHello in the output buffer when decryption succeeds, returns 1
\* with decrypted_ok 0 when decryption fails or the ClientHello has no ECH
\* extension, and returns 0 only for a NULL argument, a malformed
\* ClientHello or an output buffer that is too small
C28_RawDecryptReturn ==
  (pc = "raw" /\ srv.nullarg = "none")
    => /\ (RawReference.rv = 1 /\ RawReference.conn.ech_success = 1
           /\ Len(RawReference.conn.innerch) + 5 <= srv.size)
            => /\ srv.raw.rv = 1
               /\ srv.raw.decrypted_ok = 1
               /\ srv.raw.inner_ch
                    = RecordHello(Slice(RawReference.conn.innerch, 4,
                                        Len(RawReference.conn.innerch) - 4))
       /\ (wire.kind \in UnopenableKinds \cup NoEchKinds)
            => (srv.raw.rv = 1 /\ srv.raw.decrypted_ok = 0)
       /\ (srv.raw.rv = 0)
            => \/ wire.kind \in StructuralKinds
               \/ Len(RawReference.conn.innerch) + 5 > srv.size

\* the same, for the ClientHellos that pass the bounds test of
\* ech_get_offsets and whose inner ClientHello passes it too
C28_RawDecryptReturnBounded ==
  (pc = "raw" /\ srv.nullarg = "none"
   /\ ech_get_offsets(wire.ch).rv = 1
   /\ (RawReference.conn.ech_success = 1
         => ech_get_offsets(Slice(RawReference.conn.innerch, 4,
                              Len(RawReference.conn.innerch) - 4)).rv = 1))
    => /\ (RawReference.rv = 1 /\ RawReference.conn.ech_success = 1
           /\ Len(RawReference.conn.innerch) + 5 <= srv.size)
            => /\ srv.raw.rv = 1
               /\ srv.raw.decrypted_ok = 1
               /\ srv.raw.inner_ch
                    = RecordHello(Slice(RawReference.conn.innerch, 4,
                                        Len(RawReference.conn.innerch) - 4))
       /\ (wire.kind \in UnopenableKinds \cup NoEchKinds)
            => (srv.raw.rv = 1 /\ srv.raw.decrypted_ok = 0)
       /\ (srv.raw.rv = 0)
            => \/ wire.kind \in StructuralKinds
               \/ Len(RawReference.conn.innerch) + 5 > srv.size

\* raw decryption recovered the inner ClientHello and said so
C28_Witness ==
  /\ pc = "raw"
  /\ srv.raw.rv = 1
  /\ srv.raw.decrypted_ok = 1
  /\ srv.ok = 0
  /\ srv.raw.inner_sni = NameSet(InnerName)


\* the outer ClientHello message at the start of the old transcript
OuterMsg == HsMsg(SSL3_MT_CLIENT_HELLO, wire.ch)

\* the old transcript begins with the whole outer ClientHello message
BeginsWithOuter ==
  /\ Len(srv.old) >= Len(OuterMsg)
  /\ Slice(srv.old, 0, Len(OuterMsg)) = OuterMsg

\* C30: after a successful ech_swaperoo on a transcript that begins with
\* the outer ClientHello message, the new transcript is the reconstructed
\* inner ClientHello followed by exactly the octets that followed the
\* outer ClientHello message (4-octet header and body) in the old one
C30_TranscriptRebuilt ==
  (pc = "swapped" /\ srv.rv = 1 /\ BeginsWithOuter)
    => srv.handshake_buffer
         = conn.innerch
           \o Slice(srv.old, Len(OuterMsg), Len(srv.old) - Len(OuterMsg))

\* what the code does: the octets kept are those from offset 1 + body
\* length on, so the last three octets of the outer ClientHello stay
C30_TranscriptKeepsThree ==
  (pc = "swapped" /\ srv.rv = 1 /\ BeginsWithOuter)
    => srv.handshake_buffer
         = conn.innerch
           \o Slice(srv.old, Len(OuterMsg) - 3,
                    Len(srv.old) - Len(OuterMsg) + 3)

\* a successful swap on a transcript of the outer ClientHello and one
\* more message
C30_Witness ==
  /\ pc = "swapped"
  /\ srv.rv = 1
  /\ srv.old = OuterMsg \o FollowingMsg


\* the AAD ech_early_decrypt rebuilds from the received ClientHello ch
ServerAad(ch) ==
  LET o == ech_get_offsets(ch)
      echlen == Rd16(ch, o.echoffset + 2)
      extval == ParseEch(Slice(ch, o.echoffset + 4, echlen))
  IN ech_srv_get_aad(extval.kdf_id, extval.aead_id, extval.enc,
                     extval.config_id,
                     DecodedOuter(ch, o.exts, o.echoffset, echlen))

\* the server reaches the AAD computation for the ClientHello the client
\* sent
RebuildsAad ==
  /\ pc \in { "received", "decrypted", "done", "raw", "swapped" }
  /\ wire.kind = "exact"
  /\ ech_get_offsets(wire.ch).rv = 1
  /\ ech_get_offsets(wire.ch).echoffset > 0

\* C31: for the outer ClientHello that ech_aad_and_encrypt produced, the
\* AAD the server rebuilds (ECH extension cut out, extensions length
\* reduced by its size) is octet for octet the AAD the client sealed with:
\* kdf_id, aead_id, config_id, length of enc, enc, 3-octet length of the
\* body and the outer ClientHello body without the ECH extension
C31_AadRoundTrip ==
  RebuildsAad
    => \A b \in hpke_sealed :
         /\ b.aad = ServerAad(wire.ch)
         /\ b.aad = U16(cl.hpke_suite.kdf_id) \o U16(cl.hpke_suite.aead_id)
                    \o << cl.cfgs[cl.tc].config_id >>
                    \o U16(Len(b.enc)) \o b.enc
                    \o U24(Len(OuterPkt(cl)) - 4)
                    \o Slice(OuterPkt(cl), 4, Len(OuterPkt(cl)) - 4)

\* the server rebuilt the AAD of a ClientHello that carries an outer SNI
\* and other extensions before the ECH extension
C31_Witness ==
  /\ RebuildsAad
  /\ pc = "decrypted"
  /\ hpke_sealed # {}
  /\ ech_get_offsets(wire.ch).snioffset > 0
  /\ Len(ServerAad(wire.ch)) > 100


\* where the extensions length field of the client's outer ClientHello
\* message lies: after the handshake header, version, random, session id,
\* cipher suites and compression methods
ClientStartOfExts == 4 + 2 + SSL3_RANDOM_SIZE + 1 + Len(cl.sid) + 2 + Len(Ciphers) + 2

\* the ECH extension at the end of the client's packet
ClientEchExt ==
  Slice(cl.pkt, Len(OuterPkt(cl)), Len(cl.pkt) - Len(OuterPkt(cl)))

\* C32: after ech_aad_and_encrypt succeeds the outer ClientHello ends with
\* one ECH extension laid out as type, length, kdf_id, aead_id, config_id,
\* length of enc, enc, length of ct, ct; the extensions length field is
\* its previous value plus the full size of that extension,
\* 13 + enc_len + ct_len, which is the sum of the sizes of all extensions
C32_EchExtAppended ==
  (pc \in { "sent", "received", "decrypted", "done", "raw", "swapped" })
    => \A b \in hpke_sealed :
         /\ cl.rv = 1
         /\ Slice(cl.pkt, 0, ClientStartOfExts)
              = Slice(OuterPkt(cl), 0, ClientStartOfExts)
         /\ Slice(cl.pkt, ClientStartOfExts + 2,
                  Len(OuterPkt(cl)) - ClientStartOfExts - 2)
              = Slice(OuterPkt(cl), ClientStartOfExts + 2,
                      Len(OuterPkt(cl)) - ClientStartOfExts - 2)
         /\ ClientEchExt
              = U16(TLSEXT_TYPE_ech)
                \o U16(9 + Len(b.enc) + Len(b.cipher))
                \o U16(cl.hpke_suite.kdf_id) \o U16(cl.hpke_suite.aead_id)
                \o << cl.cfgs[cl.tc].config_id >>
                \o U16(Len(b.enc)) \o b.enc
                \o U16(Len(b.cipher)) \o b.cipher
         /\ Rd16(cl.pkt, ClientStartOfExts)
              = Rd16(OuterPkt(cl), ClientStartOfExts)
                + 13 + Len(b.enc) + Len(b.cipher)
         /\ Rd16(cl.pkt, ClientStartOfExts)
              = Len(cl.pkt) - ClientStartOfExts - 2
         /\ ech_get_offsets(Slice(cl.pkt, 4, Len(cl.pkt) - 4)).echoffset
              = Len(OuterPkt(cl)) - 4

\* ech_aad_and_encrypt succeeded on a ClientHello with a session id and
\* extensions before the ECH extension
C32_Witness ==
  /\ pc = "sent"
  /\ cl.rv = 1
  /\ hpke_sealed # {}
  /\ Len(cl.sid) > 0
  /\ Rd16(OuterPkt(cl), ClientStartOfExts) > 0
  /\ Len(ClientEchExt) > 13


RECURSIVE ExtList(_)
\* the extensions of a well-formed extensions block, in order
ExtList(b) ==
  IF Len(b) < 4 THEN << >>
  ELSE << [ type |-> Rd16(b, 0), data |-> Slice(b, 4, Rd16(b, 2)) ] >>
       \o ExtList(Slice(b, 4 + Rd16(b, 2), Len(b) - 4 - Rd16(b, 2)))

\* the extensions block of the encoded inner ClientHello of the client
EncodedInnerExts ==
  LET e == cl.encoded_innerch
      off == 2 + SSL3_RANDOM_SIZE + 1 + 2 + Len(Ciphers) + 2
  IN IF Rd16(e, off) = Len(e) - off - 2
     THEN ExtList(Slice(e, off + 2, Len(e) - off - 2))
     ELSE << >>

\* the present extensions of the inner ClientHello and those compressed
PresentRaws == SelectSeq(cl.raws, LAMBDA r : r.present)
CompressedTypes ==
  LET c == SelectSeq(PresentRaws, LAMBDA r : InOuterOnly(r.type, cl.outer_only))
  IN [ i \in 1..Len(c) |-> c[i].type ]

\* the octets of a list of extension types
RECURSIVE TypeOctets(_)
TypeOctets(types) ==
  IF types = << >> THEN << >>
  ELSE U16(Head(types)) \o TypeOctets(Tail(types))

RECURSIVE ExpectedEncoded(_, _)
\* the extensions expected in the encoded inner: each extension that is
\* not compressed as it is, and one outer_extensions in the place of the
\* first compressed one
ExpectedEncoded(raws, done) ==
  IF raws = << >> THEN << >>
  ELSE LET r == Head(raws)
       IN IF InOuterOnly(r.type, cl.outer_only)
          THEN (IF done THEN << >>
                ELSE << [ type |-> TLSEXT_TYPE_outer_extensions,
                          data |-> << 2 * Len(CompressedTypes) >>
                                   \o TypeOctets(CompressedTypes) ] >>)
               \o ExpectedEncoded(Tail(raws), TRUE)
          ELSE << [ type |-> r.type, data |-> r.data ] >>
               \o ExpectedEncoded(Tail(raws), done)

\* how many outer_extensions extensions the encoded inner has
OuterExtsCount ==
  Cardinality({ i \in 1..Len(EncodedInnerExts) :
                  EncodedInnerExts[i].type = TLSEXT_TYPE_outer_extensions })

\* C33: when at least one inner extension is compressed, ech_encode_inner
\* writes one outer_extensions extension at the position of the first
\* compressed extension, with a count octet of 2*N and the N compressed
\* types, and none of the compressed extensions; when none is compressed it
\* writes no outer_extensions; the session id of the encoded inner is empty
C33_EncodedInner ==
  (pc \in { "encoded", "sent", "failed", "received" })
    => /\ EncodedInnerExts = ExpectedEncoded(PresentRaws, FALSE)
       /\ OuterExtsCount = (IF CompressedTypes = << >> THEN 0 ELSE 1)
       /\ \A i \in 1..Len(EncodedInnerExts) :
            ~InOuterOnly(EncodedInnerExts[i].type, cl.outer_only)
       /\ At(cl.encoded_innerch, 2 + SSL3_RANDOM_SIZE) = 0
       /\ Rd16(cl.encoded_innerch, 2 + SSL3_RANDOM_SIZE + 1) = Len(Ciphers)

\* two extensions, not the first ones, were compressed
C33_Witness ==
  /\ pc = "encoded"
  /\ Len(CompressedTypes) = 2
  /\ ~InOuterOnly(PresentRaws[1].type, cl.outer_only)
  /\ OuterExtsCount = 1


\* ech_early_decrypt returned 1 on a ClientHello with an ECH extension, or
\* a later ech_swaperoo returned 1
EchProcessed ==
  /\ srv.rv = 1
  /\ \/ /\ pc \in { "decrypted", "done" }
        /\ ech_get_offsets(wire.ch).echoffset > 0
     \/ pc = "swapped"

\* C34: on a server connection, once ech_early_decrypt has returned 1 for a
\* ClientHello with an ECH extension, and after a later ech_swaperoo that
\* returned 1, ech_attempted and ech_done are 1 and exactly one of
\* ech_success = 1 and ech_grease = ECH_IS_GREASE holds
C34_ServerFlags ==
  EchProcessed
    => /\ conn.ech_attempted = 1
       /\ conn.ech_done = 1
       /\ (conn.ech_success = 1) # (conn.ech_grease = ECH_IS_GREASE)

\* a connection on which open failed, and so GREASE was assumed
C34_Witness ==
  /\ EchProcessed
  /\ pc = "done"
  /\ conn.ech_grease = ECH_IS_GREASE
  /\ conn.ech_success = 0
  /\ srv.tried # << >>

\* a connection after a swap that returned 1
C34_SwapReached ==
  pc = "swapped" /\ srv.rv = 1 /\ conn.ech_success = 1


\* is the suite s one of those the config lists, with the config's KEM
ListedIn(s, cfg) ==
  /\ s.kem_id = cfg.kem_id
  /\ \E i \in 1..Len(cfg.ciphersuites) :
       /\ cfg.ciphersuites[i].kdf = s.kdf_id
       /\ cfg.ciphersuites[i].aead = s.aead_id

\* C35: the HPKE suite ech_aad_and_encrypt generates the ephemeral key
\* with, seals with and writes into the AAD and the ECH extension is a
\* locally supported suite that the selected ECHConfig lists
C35_SuiteOfSelectedConfig ==
  (pc \in { "sent", "failed" } /\ cl.tc # 0)
    => /\ hpke_suite_check(cl.hpke_suite) = 1
       /\ ListedIn(cl.hpke_suite, cl.cfgs[cl.tc])

\* the same for the calls that succeed
C35_SuiteOfSelectedConfigSent ==
  (pc = "sent" /\ cl.tc # 0)
    => /\ hpke_suite_check(cl.hpke_suite) = 1
       /\ ListedIn(cl.hpke_suite, cl.cfgs[cl.tc])

\* with one config that lists one suite the suite used is that one
C35_SingleConfig ==
  (pc \in { "sent", "failed" } /\ cl.tc # 0 /\ Len(cl.cfgs) = 1
   /\ Len(cl.cfgs[1].ciphersuites) = 1)
    => /\ hpke_suite_check(cl.hpke_suite) = 1
       /\ ListedIn(cl.hpke_suite, cl.cfgs[cl.tc])


\* a step that is a call of SSL_ech_reduce in a process whose behaviour was
\* defined so far
ReduceStep == lastop'.op = "reduce" /\ lastop' # lastop /\ alloc.faults = {}

\* C36: SSL_ech_reduce(s, index) returns 1 only for 0 <= index < nechs; the
\* connection then holds the entry that was at index and nothing else, and
\* the blocks of the other entries are freed; for any other index it
\* returns 0, reads and writes nothing outside the array and leaves the
\* entries of the connection as they were
C36_ReduceInRange ==
  [][ReduceStep =>
       IF lastop'.index >= 0 /\ lastop'.index < conn.nechs
       THEN /\ lastop'.rv = 1
            /\ conn'.nechs = 1
            /\ conn'.ech = << conn.ech[lastop'.index + 1] >>
            /\ \A i \in 1..conn.nechs :
                 i # lastop'.index + 1
                   => \A b \in NewBlocks(conn.ech[i], conn.ech[i].cfg[1]) :
                        b \notin alloc'.live
       ELSE /\ lastop'.rv = 0
            /\ conn' = conn
            /\ alloc' = alloc]_vars

\* the part of it that is about the indexes inside the array
C36_ReduceInside ==
  [][(ReduceStep /\ lastop'.index >= 0 /\ lastop'.index < conn.nechs)
       => /\ lastop'.rv = 1
          /\ conn'.nechs = 1
          /\ conn'.ech = << conn.ech[lastop'.index + 1] >>
          /\ \A i \in 1..conn.nechs :
               i # lastop'.index + 1
                 => \A b \in NewBlocks(conn.ech[i], conn.ech[i].cfg[1]) :
                      b \notin alloc'.live]_vars

\* a step that is a call of SSL_ECH_dup in a process whose behaviour was
\* defined so far
DupStep == lastop'.op = "dup" /\ lastop' # lastop /\ alloc.faults = {}

\* is the entry new a copy that SSL_ECH_dup makes of the entry old
CopyOf(new, old) ==
  \E n \in 1..(MaxBatch + 1) : new = DupEntry(old, n)

\* C37: SSL_ECH_dup with a selector k, 0 <= k < nech, returns an array of
\* one element that is a copy of orig[k] and writes only inside that
\* array; with ECH_SELECT_ALL it returns copies of orig[0..nech-1] in
\* order; with k >= nech or another negative selector it returns NULL
C37_DupSelector ==
  [][DupStep =>
       IF lastop'.selector = ECH_SELECT_ALL
       THEN /\ conn'.nechs = ctx.nechs
            /\ \A i \in 1..ctx.nechs : CopyOf(conn'.ech[i], ctx.ech[i])
       ELSE IF lastop'.selector >= 0 /\ lastop'.selector < ctx.nechs
       THEN /\ lastop'.rv # NULL
            /\ conn'.nechs = 1
            /\ CopyOf(conn'.ech[1], ctx.ech[lastop'.selector + 1])
            /\ "overflow" \notin alloc'.faults
       ELSE lastop'.rv = NULL /\ alloc' = alloc]_vars

\* the part of it that is about ECH_SELECT_ALL, selector 0 and the
\* selectors that are turned down
C37_DupOtherSelectors ==
  [][(DupStep /\ ~(lastop'.selector >= 1 /\ lastop'.selector < ctx.nechs)) =>
       IF lastop'.selector = ECH_SELECT_ALL
       THEN /\ conn'.nechs = ctx.nechs
            /\ \A i \in 1..ctx.nechs : CopyOf(conn'.ech[i], ctx.ech[i])
       ELSE IF lastop'.selector = 0
       THEN /\ lastop'.rv # NULL
            /\ conn'.nechs = 1
            /\ CopyOf(conn'.ech[1], ctx.ech[1])
            /\ "overflow" \notin alloc'.faults
       ELSE lastop'.rv = NULL /\ alloc' = alloc]_vars


(***************************************************************************)
(* Outer names and OPENSSL_free                                            *)
(***************************************************************************)

\* the calls on a connection that hand names to OPENSSL_free
NameFreeOps == { "server_name", "set_outer_server_name", "ech_free" }

\* C38: in any sequence of SSL_ech_server_name,
\* SSL_ech_set_outer_server_name and SSL_CTX_ech_set_outer_server_name calls
\* followed by SSL_ECH_free, the static marker for "send no outer SNI" is
\* never handed to OPENSSL_free
C38_SentinelNeverFreed ==
  /\ cl.call.op \in NameFreeOps \cup { "ctx_set_outer_server_name" }
       => ECH_PUBLIC_NAME_OVERRIDE_NULL \notin cl.call.freed
  /\ cl.call.op = "ech_free"
       => ECH_PUBLIC_NAME_OVERRIDE_NULL \notin cl.call.ctx_freed

\* a call on the connection that went on after its frees
NameFreeStep ==
  /\ cl'.call.op \in NameFreeOps
  /\ cl' # cl
  /\ cl'.call.rv = 1
  /\ cl'.call.outcome = "done"

\* C38, the heap names: a call that replaces or drops the outer name of the
\* connection frees the heap name the field held, and frees nothing but the
\* names the fields held, so no heap name is freed twice or left behind;
\* SSL_ECH_free itself does not free the marker
C38_HeapNameFreedOnce ==
  [][NameFreeStep =>
       /\ cl.outer_name.ptr = "heap" => cl.outer_name \in cl'.call.freed
       /\ cl'.call.freed \subseteq { cl.inner_name, cl.outer_name }
       /\ cl'.call.op = "ech_free"
            => /\ cl'.outer_name = NullStr
               /\ ECH_PUBLIC_NAME_OVERRIDE_NULL \notin cl'.call.freed
               /\ ctx.outer_name.ptr = "heap"
                    => ctx.outer_name \in cl'.call.ctx_freed]_vars


(***************************************************************************)
(* local_svcb_add and the bounds of the RData                              *)
(***************************************************************************)

\* local_svcb_add has walked through decoded RData
SvcbWalkDone == cl.call.op = "svcb_add" /\ cl.call.r.walked

\* no octet is read behind the RData
SvcbReadsInside == SvcbWalkDone => cl.call.r.read <= cl.call.r.binlen

\* a label or a parameter that is longer than what remains makes the call
\* fail
SvcbShortFails ==
  (SvcbWalkDone
     /\ cl.desc.kind \in { "rdata_label", "rdata_param", "rdata_echlen" })
    => cl.call.r.rv = 0

\* the ECH value handed to local_ech_add lies inside the RData
SvcbValueInside ==
  (SvcbWalkDone /\ cl.call.r.done)
    => cl.call.r.ekval + cl.call.r.eklen <= cl.call.r.binlen

\* C39: local_svcb_add never reads outside the decoded RData: a TargetName
\* label or a parameter, the ech one included, whose declared length
\* exceeds the octets that remain makes the call fail, and the ECH value
\* handed to the binary decoder lies entirely inside the RData
C39_SvcbInsideRData ==
  /\ SvcbReadsInside
  /\ SvcbShortFails
  /\ SvcbValueInside

\* C39, RData that is well formed: nothing behind it is read and the ECH
\* value lies inside it
C39_WellFormedInside ==
  (SvcbWalkDone /\ cl.desc.kind \in { "rdata_hex", "rdata_b64", "rdata_none" }
     /\ cl.call.fmt \in { ECH_FMT_ASCIIHEX, ECH_FMT_B64TXT }
     /\ (cl.desc.kind = "rdata_hex") = (cl.call.fmt = ECH_FMT_ASCIIHEX))
    => /\ cl.call.r.read <= cl.call.r.binlen
       /\ cl.call.r.done
            => cl.call.r.ekval + cl.call.r.eklen <= cl.call.r.binlen

====
